---- MODULE Spec2Model ----
(***************************************************************************)
(* A model of the guardrails pipeline (src/lib/guardrails) and of the AI   *)
(* client with retry and fallback (src/lib/ai/client.ts) of CodeSmith-v2.  *)
(*                                                                         *)
(* Text payloads are sequences of words (joined by single blanks).  A      *)
(* regular expression of the source is modelled by the set of vocabulary   *)
(* words it matches; a match position is the character offset of the word. *)
(* Money is kept in integers: a price per 1K tokens is given in units of   *)
(* 10^-5 USD, a cost in units of 10^-8 USD.                                *)
(***************************************************************************)
EXTENDS Integers, Sequences, FiniteSets, TLC

VARIABLES
    config,        \* GuardrailsMiddleware.config (enabled, strictMode, logLevel, whitelist, blacklist)
    enabledRules,  \* the guardrail types whose enabled field is true
    lastIndex,     \* lastIndex of every /g regular expression object kept in a rule instance
    runs,          \* number of pipeline runs made so far (bounded by MaxRuns)
    tasks,         \* the processInput/processOutput calls in flight, in the order of their issue
    userLimits,    \* RateLimitGuardrail.userLimits : identity -> entry (or NoEntry)
    now,           \* Date.now(), in milliseconds
    caller,        \* the context of the identity that calls the rate limiter directly
    options,       \* AIClient.options (maxRetries, retryDelay, fallbackModels, enableFallback)
    initialized,   \* AIProviderRegistry.initialized : the provider names given credentials,
                   \* in the order of their insertion into the Set
    adapter,       \* how the backend of each model behaves: model id -> behaviour
    gen,           \* the generateText call in progress
    stream,        \* the streamText call in progress
    probe,         \* the getHealthyProvider call in progress
    costCall,      \* a call of calculateCost: its arguments and, once made, its result
    last           \* what the last operation was called with and what it returned

pipelineVars == <<config, enabledRules, lastIndex, runs, tasks>>
limiterVars == <<userLimits, now, caller>>
clientVars == <<options, initialized, adapter, gen, stream, probe>>

vars == <<pipelineVars, limiterVars, clientVars, costCall, last>>

----------------------------------------------------------------------------
(* Generic helpers *)

Min(S) == CHOOSE x \in S : \A y \in S : x <= y

Range(s) == {s[i] : i \in 1..Len(s)}

\* ceil(a / b) for a >= 0, b > 0
CeilDiv(a, b) == (a + b - 1) \div b

\* the undefined of an optional content field
Undefined == <<"<undefined>">>

\* JavaScript truthiness of an optional string: undefined and "" are falsy
Truthy(c) == c # Undefined /\ c # <<>>

----------------------------------------------------------------------------
(* Vocabulary: the words payloads are made of.  "~~~" stands for the code *)
(* fence of three backquotes. *)

CharLen(w) ==
    CASE w = "hello" -> 5
      [] w = "call" -> 4
      [] w = "me" -> 2
      [] w = "at" -> 2
      [] w = "kill" -> 4
      [] w = "spam" -> 4
      [] w = "jailbreak" -> 9
      [] w = "<system>" -> 8
      [] w = "555-123-4567" -> 12
      [] w = "[REDACTED]" -> 10
      [] w = "my prompt" -> 9
      [] w = "~~~x = 1~~~" -> 11
      [] w = "~~~// TODO: x~~~" -> 16
      [] w = "~~~f({~~~" -> 9
      [] w = "~~~await f()~~~" -> 15
      [] w = "~~~// TODO: await f()~~~" -> 24
      [] w = "~~~const a = {b: 1}~~~" -> 22
      [] w = "<a text of 39997 characters>" -> 39997
      [] w = "<a text of 399997 characters>" -> 399997
      [] w = "<a text of 3999997 characters>" -> 3999997
      [] OTHER -> 1

\* number of characters of w outside [a-zA-Z0-9\s.,!?]
SpecialChars(w) ==
    CASE w = "<system>" -> 2
      [] w = "555-123-4567" -> 2
      [] w = "[REDACTED]" -> 2
      [] w = "~~~x = 1~~~" -> 7
      [] w = "~~~// TODO: x~~~" -> 9
      [] w = "~~~f({~~~" -> 8
      [] OTHER -> 0

RECURSIVE SumOver(_, _, _)
SumOver(F(_), c, n) == IF n = 0 THEN 0 ELSE F(c[n]) + SumOver(F, c, n - 1)

\* content.length: the words and the blanks between them
StrLength(c) == IF c = <<>> THEN 0 ELSE SumOver(CharLen, c, Len(c)) + Len(c) - 1

\* character offset at which word i of c starts
WordStart(c, i) == SumOver(CharLen, c, i - 1) + (i - 1)

\* RegExp.prototype.test of a /g expression: search from lastIndex, set lastIndex
\* behind the match, or reset it to 0 when nothing is found
RegexTestG(pattern, c, li) ==
    LET hits == {i \in 1..Len(c) : c[i] \in pattern /\ WordStart(c, i) >= li}
    IN  IF hits = {}
        THEN [found |-> FALSE, lastIndex |-> 0]
        ELSE [found |-> TRUE,
              lastIndex |-> WordStart(c, Min(hits)) + CharLen(c[Min(hits)])]

\* test of a regular expression object created for the call (lastIndex 0, or no /g)
RegexTest(pattern, c) == \E i \in 1..Len(c) : c[i] \in pattern

\* String.prototype.replace with a /g expression: every match is replaced
ReplaceAll(c, pattern, by) == [i \in 1..Len(c) |-> IF c[i] \in pattern THEN by ELSE c[i]]

----------------------------------------------------------------------------
(* types.ts: BaseGuardrail.createResult *)

createResult(type, action, reason, originalContent, modifiedContent, severity) ==
    [action |-> action, reason |-> reason, originalContent |-> originalContent,
     modifiedContent |-> modifiedContent, severity |-> severity, guardrailType |-> type]

----------------------------------------------------------------------------
(* rules/rate-limit: RateLimitGuardrail *)

MinuteMs == 60000
DayMs == 86400000

NoUser == "<no user>"
NoEntry == [absent |-> TRUE]

\* RateLimitGuardrail.limits
limits ==
    [free       |-> [requestsPerMinute |-> 10,  requestsPerHour |-> 100,
                     tokensPerDay |-> 10000,   concurrentRequests |-> 2],
     pro        |-> [requestsPerMinute |-> 60,  requestsPerHour |-> 1000,
                     tokensPerDay |-> 100000,  concurrentRequests |-> 5],
     enterprise |-> [requestsPerMinute |-> 300, requestsPerHour |-> 10000,
                     tokensPerDay |-> 1000000, concurrentRequests |-> 20]]

\* mutant: one entry for all callers
UserKey_Shared(ctx) == "anonymous"

\* context.userId || "anonymous"
UserKey(ctx) == IF ctx.userId = NoUser THEN "anonymous" ELSE ctx.userId

\* lines 183-193: get or create the rate limit entry
GetOrCreateEntry(ul, key, t) ==
    IF ul[key] = NoEntry
    THEN [count |-> 0, tokens |-> 0, lastReset |-> t, concurrent |-> 0]
    ELSE ul[key]

\* mutant: the request counter is not reset when the minute is over
ResetCounters_KeepsCount(entry, t) ==
    LET minuteOver == (t - entry.lastReset) >= MinuteMs
        dayOver    == (t - entry.lastReset) >= DayMs
    IN  [count      |-> entry.count,
         tokens     |-> IF dayOver THEN 0 ELSE entry.tokens,
         lastReset  |-> IF minuteOver THEN t ELSE entry.lastReset,
         concurrent |-> entry.concurrent]

\* lines 195-208: the window resets; both ages are taken from lastReset as it
\* was when the call began
ResetCounters(entry, t) ==
    LET minuteOver == (t - entry.lastReset) >= MinuteMs
        dayOver    == (t - entry.lastReset) >= DayMs
    IN  [count      |-> IF minuteOver THEN 0 ELSE entry.count,
         tokens     |-> IF dayOver THEN 0 ELSE entry.tokens,
         lastReset  |-> IF minuteOver THEN t ELSE entry.lastReset,
         concurrent |-> entry.concurrent]

\* Math.ceil(content.length / 4)
EstimateTokens(length) == CeilDiv(length, 4)

RateLimitType == "rate_limit"

\* mutant: the per-minute limit is tested before the concurrency limit
RateLimitCheckInput_MinuteFirst(content, ctx, ul, t) ==
    LET key    == UserKey(ctx)
        lim    == limits[ctx.userTier]
        entry  == ResetCounters(GetOrCreateEntry(ul, key, t), t)
        est    == EstimateTokens(StrLength(content))
        block(reason) ==
            [result |-> createResult(RateLimitType, "block", reason, content, Undefined, "medium"),
             userLimits |-> [ul EXCEPT ![key] = entry]]
    IN  IF entry.count >= lim.requestsPerMinute
        THEN block(<<"Rate limit exceeded. Limit: ", lim.requestsPerMinute, " requests per minute">>)
        ELSE IF entry.concurrent >= lim.concurrentRequests
        THEN block(<<"Too many concurrent requests. Limit: ", lim.concurrentRequests>>)
        ELSE IF entry.tokens + est > lim.tokensPerDay
        THEN block(<<"Daily token limit exceeded. Limit: ", lim.tokensPerDay, " tokens per day">>)
        ELSE [result |-> createResult(RateLimitType, "allow", <<"Rate limit check passed">>,
                                      content, Undefined, "low"),
              userLimits |-> [ul EXCEPT ![key] =
                                 [entry EXCEPT !.count = @ + 1,
                                               !.tokens = @ + est,
                                               !.concurrent = @ + 1]]]

\* mutant: a blocked call is counted as a request of the window
RateLimitCheckInput_CountsBlocked(content, ctx, ul, t) ==
    LET key    == UserKey(ctx)
        lim    == limits[ctx.userTier]
        entry  == ResetCounters(GetOrCreateEntry(ul, key, t), t)
        est    == EstimateTokens(StrLength(content))
        block(reason) ==
            [result |-> createResult(RateLimitType, "block", reason, content, Undefined, "medium"),
             userLimits |-> [ul EXCEPT ![key] = [entry EXCEPT !.count = @ + 1]]]
    IN  IF entry.concurrent >= lim.concurrentRequests
        THEN block(<<"Too many concurrent requests. Limit: ", lim.concurrentRequests>>)
        ELSE IF entry.count >= lim.requestsPerMinute
        THEN block(<<"Rate limit exceeded. Limit: ", lim.requestsPerMinute, " requests per minute">>)
        ELSE IF entry.tokens + est > lim.tokensPerDay
        THEN block(<<"Daily token limit exceeded. Limit: ", lim.tokensPerDay, " tokens per day">>)
        ELSE [result |-> createResult(RateLimitType, "allow", <<"Rate limit check passed">>,
                                      content, Undefined, "low"),
              userLimits |-> [ul EXCEPT ![key] =
                                 [entry EXCEPT !.count = @ + 1,
                                               !.tokens = @ + est,
                                               !.concurrent = @ + 1]]]

\* RateLimitGuardrail.checkInput, on a content of the given length; the result
\* is the verdict and the new userLimits map
RateLimitCheckInput(content, ctx, ul, t) ==
    LET key    == UserKey(ctx)
        lim    == limits[ctx.userTier]
        entry  == ResetCounters(GetOrCreateEntry(ul, key, t), t)
        est    == EstimateTokens(StrLength(content))
        block(reason) ==
            [result |-> createResult(RateLimitType, "block", reason, content, Undefined, "medium"),
             userLimits |-> [ul EXCEPT ![key] = entry]]
    IN  IF entry.concurrent >= lim.concurrentRequests
        THEN block(<<"Too many concurrent requests. Limit: ", lim.concurrentRequests>>)
        ELSE IF entry.count >= lim.requestsPerMinute
        THEN block(<<"Rate limit exceeded. Limit: ", lim.requestsPerMinute, " requests per minute">>)
        ELSE IF entry.tokens + est > lim.tokensPerDay
        THEN block(<<"Daily token limit exceeded. Limit: ", lim.tokensPerDay, " tokens per day">>)
        ELSE [result |-> createResult(RateLimitType, "allow", <<"Rate limit check passed">>,
                                      content, Undefined, "low"),
              userLimits |-> [ul EXCEPT ![key] =
                                 [entry EXCEPT !.count = @ + 1,
                                               !.tokens = @ + est,
                                               !.concurrent = @ + 1]]]

\* mutant: checkOutput leaves the counter alone
RateLimitCheckOutput_NoRelease(content, ctx, ul) ==
    [result |-> createResult(RateLimitType, "allow", <<"Output rate limit check passed">>,
                             content, Undefined, "low"),
     userLimits |-> ul]

\* mutant: the concurrent counter is decremented without the test for zero
RateLimitCheckOutput_Unguarded(content, ctx, ul) ==
    [result |-> createResult(RateLimitType, "allow", <<"Output rate limit check passed">>,
                             content, Undefined, "low"),
     userLimits |-> IF ul[UserKey(ctx)] # NoEntry
                    THEN [ul EXCEPT ![UserKey(ctx)].concurrent = @ - 1]
                    ELSE ul]

\* RateLimitGuardrail.checkOutput: release one concurrency slot
RateLimitCheckOutput(content, ctx, ul) ==
    LET key == UserKey(ctx)
    IN  [result |-> createResult(RateLimitType, "allow", <<"Output rate limit check passed">>,
                                 content, Undefined, "low"),
         userLimits |-> IF ul[key] # NoEntry /\ ul[key].concurrent > 0
                        THEN [ul EXCEPT ![key].concurrent = @ - 1]
                        ELSE ul]

----------------------------------------------------------------------------
(* Lists of /g regular expressions kept in a rule instance *)

\* for (const pattern of patterns) if (pattern.test(c)) return ...: the patterns
\* are tested in order from index i, each from its own lastIndex, up to the
\* first that matches
RECURSIVE FirstMatchG(_, _, _, _)
FirstMatchG(patterns, c, li, i) ==
    IF i > Len(patterns)
    THEN [found |-> FALSE, lastIndex |-> li]
    ELSE LET t == RegexTestG(patterns[i], c, li[i])
             li2 == [li EXCEPT ![i] = t.lastIndex]
         IN  IF t.found THEN [found |-> TRUE, lastIndex |-> li2]
                        ELSE FirstMatchG(patterns, c, li2, i + 1)

----------------------------------------------------------------------------
(* rules/content-safety (src/unnamed/part_004): ContentSafetyGuardrail *)

ContentSafetyType == "content_safety"

\* violence, illegal activities, hate speech, self-harm
harmfulPatterns == << {"kill"}, {}, {}, {} >>

\* SSN, credit card, email, phone number
sensitivePatterns == << {}, {}, {}, {"555-123-4567"} >>

\* lines 44-53: test on the content, replace in the copy; replace leaves
\* lastIndex at 0, so these expressions carry no state between calls
RECURSIVE RedactSensitive(_, _, _)
RedactSensitive(content, modified, i) ==
    IF i > Len(sensitivePatterns)
    THEN modified
    ELSE RedactSensitive(content,
                         IF RegexTest(sensitivePatterns[i], content)
                         THEN ReplaceAll(modified, sensitivePatterns[i], "[REDACTED]")
                         ELSE modified,
                         i + 1)

HasSensitiveData(content) ==
    \E i \in 1..Len(sensitivePatterns) : RegexTest(sensitivePatterns[i], content)

\* ContentSafetyGuardrail.checkInput; li is lastIndex of the harmful patterns
ContentSafetyCheckInput(content, li) ==
    LET h == FirstMatchG(harmfulPatterns, content, li, 1)
    IN  [lastIndex |-> h.lastIndex,
         result |->
            IF h.found
            THEN createResult(ContentSafetyType, "block",
                              <<"Content contains potentially harmful or dangerous information">>,
                              content, Undefined, "high")
            ELSE IF HasSensitiveData(content)
            THEN createResult(ContentSafetyType, "modify",
                              <<"Sensitive personal information detected and redacted">>,
                              content, RedactSensitive(content, content, 1), "medium")
            ELSE createResult(ContentSafetyType, "allow", <<"Content passed safety checks">>,
                              content, Undefined, "low")]

\* ContentSafetyGuardrail.checkOutput; ctx.educational says whether one of the
\* last three previous messages holds explain|teach|learn|understand|example|tutorial
ContentSafetyCheckOutput(content, ctx, li) ==
    IF ctx.educational
    THEN [lastIndex |-> li,
          result |-> createResult(ContentSafetyType, "allow", <<"Educational context detected">>,
                                  content, Undefined, "low")]
    ELSE ContentSafetyCheckInput(content, li)

----------------------------------------------------------------------------
(* rules/prompt-injection.ts: PromptInjectionGuardrail *)

PromptInjectionType == "prompt_injection"

\* 15 expressions; the twelfth is /jailbreak/gi
injectionPatterns == [i \in 1..15 |-> IF i = 12 THEN {"jailbreak"} ELSE {}]

\* 3 expressions; the third is /<\s*(system|user|assistant|human|ai)\s*>/gi
suspiciousStructures == << {}, {}, {"<system>"} >>

\* my (system )?(prompt|instructions?), ...: built anew on every checkOutput
systemRevealPatterns == << {"my prompt"}, {}, {} >>

\* specialCharRatio > 0.3 && content.length > 50 (0/0 is NaN, which compares false)
HighSpecialCharRatio(c) ==
    /\ StrLength(c) > 50
    /\ 10 * SumOver(SpecialChars, c, Len(c)) > 3 * StrLength(c)

\* words.filter((word) => word.length > 100).length > 0
HasLongWord(c) == \E i \in 1..Len(c) : CharLen(c[i]) > 100

\* PromptInjectionGuardrail.checkInput; li holds lastIndex of the injection
\* patterns and of the suspicious structures
PromptInjectionCheckInput(content, li) ==
    LET inj == FirstMatchG(injectionPatterns, content, li.injection, 1)
        sus == FirstMatchG(suspiciousStructures, content, li.suspicious, 1)
        res(action, reason, severity) ==
            createResult(PromptInjectionType, action, reason, content, Undefined, severity)
    IN  IF inj.found
        THEN [lastIndex |-> [li EXCEPT !.injection = inj.lastIndex],
              result |-> res("block", <<"Potential prompt injection detected">>, "high")]
        ELSE [lastIndex |-> [li EXCEPT !.injection = inj.lastIndex,
                                       !.suspicious = sus.lastIndex],
              result |->
                 IF sus.found
                 THEN res("flag", <<"Suspicious conversation structure detected">>, "medium")
                 ELSE IF HighSpecialCharRatio(content)
                 THEN res("flag", <<"High ratio of special characters detected">>, "medium")
                 ELSE IF HasLongWord(content)
                 THEN res("flag", <<"Unusually long words detected">>, "medium")
                 ELSE res("allow", <<"No prompt injection detected">>, "low")]

\* PromptInjectionGuardrail.checkOutput
PromptInjectionCheckOutput(content) ==
    IF \E i \in 1..Len(systemRevealPatterns) : RegexTest(systemRevealPatterns[i], content)
    THEN createResult(PromptInjectionType, "block", <<"Output may reveal system information">>,
                      content, Undefined, "high")
    ELSE createResult(PromptInjectionType, "allow", <<"Output passed injection checks">>,
                      content, Undefined, "low")

----------------------------------------------------------------------------
(* rules/completeness.ts: CompletenessGuardrail *)

CompletenessType == "completeness"

\* /\b(code|function|component|implement|build|create|write|generate)\b/gi
codeRequestWords == {"code", "function", "component", "implement", "build", "create",
                     "write", "generate"}

\* CompletenessGuardrail.checkInput: never blocks
CompletenessCheckInput(content) ==
    IF ~RegexTest(codeRequestWords, content)
    THEN createResult(CompletenessType, "allow", <<"Not a code request">>, content, Undefined, "low")
    ELSE createResult(CompletenessType, "allow", <<"Input validation passed">>, content, Undefined, "low")

\* content.match(/~~~[\s\S]*?~~~/g): the fenced code blocks of a payload, in order
IsCodeBlock(w) ==
    w \in {"~~~x = 1~~~", "~~~// TODO: x~~~", "~~~f({~~~", "~~~await f()~~~",
           "~~~// TODO: await f()~~~", "~~~const a = {b: 1}~~~"}
codeBlocks(content) == SelectSeq(content, IsCodeBlock)

NoMatch == <<-1, -1>>

\* where expression i of incompletePatterns matches in a code block: <<start, end>>
IncompleteSpan(i, block) ==
    IF i = 1 /\ block \in {"~~~// TODO: x~~~", "~~~// TODO: await f()~~~"}
    THEN <<3, 11>> ELSE NoMatch

\* where expression i of syntaxErrorPatterns matches in a code block:
\* the seventh is /\{[^}]*$/gm, the ninth /\([^)]*$/gm
SyntaxErrorSpan(i, block) ==
    IF block = "~~~f({~~~"
    THEN (IF i = 7 THEN <<5, 9>> ELSE IF i = 9 THEN <<4, 9>> ELSE NoMatch)
    ELSE NoMatch

\* test of a /g expression on one code block, given where it matches
SpanTestG(span, li) ==
    IF span # NoMatch /\ span[1] >= li
    THEN [found |-> TRUE, lastIndex |-> span[2]]
    ELSE [found |-> FALSE, lastIndex |-> 0]

\* lines 63-76: every expression of a list is tested on the block (no early
\* exit); acc = [issues, severity, lastIndex]
RECURSIVE ScanPatterns(_, _, _, _, _, _, _)
ScanPatterns(Span(_, _), n, block, issue, sev, acc, i) ==
    IF i > n
    THEN acc
    ELSE LET t == SpanTestG(Span(i, block), acc.lastIndex[i])
         IN  ScanPatterns(Span, n, block, issue, sev,
                          [issues    |-> IF t.found THEN Append(acc.issues, issue) ELSE acc.issues,
                           severity  |-> IF t.found THEN sev ELSE acc.severity,
                           lastIndex |-> [acc.lastIndex EXCEPT ![i] = t.lastIndex]],
                          i + 1)

\* hasProperImports: every match of /import\s+.*from\s+['"][^'"]*['"]/g holds
\* "from" and a quote, and so does Array.prototype.every on no match
hasProperImports(block) == TRUE

\* codeBlock.includes("import"): no block of the vocabulary holds the word
includesImport(block) == FALSE

\* /\b(async|await|fetch|Promise|\.then|\.catch)\b/g and
\* /\b(try|catch|\.catch|throw|error)\b/g, on expressions made for the call
needsErrorHandling(block) == block \in {"~~~await f()~~~", "~~~// TODO: await f()~~~"}
hasErrorHandling(block) == FALSE

\* /\b(interface|type|enum|as\s+\w+|:\s*\w+|<\w+>)\b/g: a colon behind a
\* word and before a word is enough
isTypeScript(block) ==
    block \in {"~~~// TODO: x~~~", "~~~// TODO: await f()~~~", "~~~const a = {b: 1}~~~"}

\* no block of the vocabulary declares a function; one assigns an object
\* literal to a const without a type
hasProperTypes(block) == block # "~~~const a = {b: 1}~~~"

\* lines 79-94: a finding of one of the three last checks of a block
AddIssue(acc, found, issue, sev) ==
    IF found
    THEN [acc EXCEPT !.issues = Append(@, issue),
                     !.severity = IF @ = "critical" THEN "critical" ELSE sev]
    ELSE acc

\* lines 78-94: the checks of the imports, of the error handling and of the
\* types of a block; acc = [issues, severity]
ScanRest(block, acc) ==
    AddIssue(
      AddIssue(
        AddIssue(acc, includesImport(block) /\ ~hasProperImports(block),
                 "Improper or incomplete import statements", "high"),
        needsErrorHandling(block) /\ ~hasErrorHandling(block),
        "Missing error handling for async operations", "medium"),
      isTypeScript(block) /\ ~hasProperTypes(block),
      "Missing or incomplete TypeScript type definitions", "medium")

\* lines 61-95: acc = [issues, severity, li]
RECURSIVE ScanBlocks(_, _, _)
ScanBlocks(blocks, acc, b) ==
    IF b > Len(blocks)
    THEN acc
    ELSE LET inc == ScanPatterns(IncompleteSpan, 9, blocks[b],
                        "Incomplete code detected (TODO, FIXME, or placeholder comments)", "high",
                        [issues |-> acc.issues, severity |-> acc.severity,
                         lastIndex |-> acc.li.incomplete], 1)
             syn == ScanPatterns(SyntaxErrorSpan, 9, blocks[b],
                        "Potential syntax errors detected", "critical",
                        [issues |-> inc.issues, severity |-> inc.severity,
                         lastIndex |-> acc.li.syntaxError], 1)
             rest == ScanRest(blocks[b], [issues |-> syn.issues, severity |-> syn.severity])
         IN  ScanBlocks(blocks,
                        [issues |-> rest.issues, severity |-> rest.severity,
                         li |-> [acc.li EXCEPT !.incomplete = inc.lastIndex,
                                               !.syntaxError = syn.lastIndex]],
                        b + 1)

\* CompletenessGuardrail.checkOutput
CompletenessCheckOutput(content, li) ==
    LET blocks == codeBlocks(content)
        scan == ScanBlocks(blocks, [issues |-> <<>>, severity |-> "low", li |-> li], 1)
    IN  IF Len(blocks) = 0
        THEN [lastIndex |-> li,
              result |-> createResult(CompletenessType, "allow", <<"No code blocks to validate">>,
                                      content, Undefined, "low")]
        ELSE [lastIndex |-> scan.li,
              result |->
                 IF Len(scan.issues) > 0
                 THEN createResult(CompletenessType, "block",
                                   <<"Code quality issues: ">> \o scan.issues,
                                   content, Undefined, scan.severity)
                 ELSE createResult(CompletenessType, "allow", <<"Code quality validation passed">>,
                                   content, Undefined, "low")]

----------------------------------------------------------------------------
(* middleware.ts: GuardrailsMiddleware *)

\* stable insertion sort of a sequence by an integer key (Array.prototype.sort
\* with a comparator a.key - b.key)
RECURSIVE InsertByKey(_, _, _)
InsertByKey(Key(_), x, s) ==
    IF s = <<>> THEN <<x>>
    ELSE IF Key(x) < Key(Head(s)) THEN <<x>> \o s
    ELSE <<Head(s)>> \o InsertByKey(Key, x, Tail(s))

RECURSIVE SortByKey(_, _)
SortByKey(Key(_), s) ==
    IF s = <<>> THEN <<>>
    ELSE InsertByKey(Key, s[Len(s)], SortByKey(Key, SubSeq(s, 1, Len(s) - 1)))

\* mutant: the priorities the other way round
priority_Descending(g) ==
    CASE g = RateLimitType -> 3
      [] g = ContentSafetyType -> 2
      [] g = PromptInjectionType -> 1
      [] g = CompletenessType -> 0

\* the priority field of each rule class
priority(g) ==
    CASE g = RateLimitType -> 0
      [] g = ContentSafetyType -> 1
      [] g = PromptInjectionType -> 2
      [] g = CompletenessType -> 3

\* initializeGuardrails: the built-in rules, sorted by priority
guardrails ==
    SortByKey(priority, <<RateLimitType, ContentSafetyType, PromptInjectionType, CompletenessType>>)

\* a whitelist or blacklist entry is a word; new RegExp(pattern, "i").test and
\* the substring fallback both come to the payload holding that word
PatternHits(pattern, content) == RegexTest({pattern}, content)

isBlacklisted(content, cfg) ==
    /\ Len(cfg.blacklist) # 0
    /\ \E i \in 1..Len(cfg.blacklist) : PatternHits(cfg.blacklist[i], content)

\* mutant: the blacklist is consulted first, a blacklisted payload is never whitelisted
isWhitelisted_BlacklistWins(content, cfg) ==
    /\ Len(cfg.whitelist) # 0
    /\ \E i \in 1..Len(cfg.whitelist) : PatternHits(cfg.whitelist[i], content)
    /\ ~isBlacklisted(content, cfg)

isWhitelisted(content, cfg) ==
    /\ Len(cfg.whitelist) # 0
    /\ \E i \in 1..Len(cfg.whitelist) : PatternHits(cfg.whitelist[i], content)

\* the rules' state rs = [userLimits, lastIndex] lives in the rule objects: the
\* verdict of rule g with the state after its check returned r (the rate
\* limiter keeps userLimits, content safety the lastIndex of its harmful
\* patterns, the other two rules the lastIndex of theirs)
AfterCheck(g, rs, r) ==
    [result |-> r.result,
     rs |-> CASE g = RateLimitType -> [rs EXCEPT !.userLimits = r.userLimits]
              [] g = ContentSafetyType -> [rs EXCEPT !.lastIndex.harmful = r.lastIndex]
              [] OTHER -> [rs EXCEPT !.lastIndex = r.lastIndex]]

\* guardrail.checkInput(content, context) of rule g on the rules' state rs;
\* the result is the verdict and the new state
CheckInput(g, content, ctx, rs, t) ==
    AfterCheck(g, rs,
        CASE g = RateLimitType -> RateLimitCheckInput(content, ctx, rs.userLimits, t)
          [] g = ContentSafetyType -> ContentSafetyCheckInput(content, rs.lastIndex.harmful)
          [] g = PromptInjectionType -> PromptInjectionCheckInput(content, rs.lastIndex)
          [] g = CompletenessType ->
                [result |-> CompletenessCheckInput(content), lastIndex |-> rs.lastIndex])

\* guardrail.checkOutput(content, context) of rule g
CheckOutput(g, content, ctx, rs, t) ==
    AfterCheck(g, rs,
        CASE g = RateLimitType -> RateLimitCheckOutput(content, ctx, rs.userLimits)
          [] g = ContentSafetyType -> ContentSafetyCheckOutput(content, ctx, rs.lastIndex.harmful)
          [] g = PromptInjectionType ->
                [result |-> PromptInjectionCheckOutput(content), lastIndex |-> rs.lastIndex]
          [] g = CompletenessType -> CompletenessCheckOutput(content, rs.lastIndex))

Check(phase, g, content, ctx, rs, t) ==
    IF phase = "input" THEN CheckInput(g, content, ctx, rs, t)
                       ELSE CheckOutput(g, content, ctx, rs, t)

\* mutant: the verdict of a fault has severity high
SystemError_High(g, content) ==
    [action |-> "block", reason |-> <<"Guardrail system error: ", g>>,
     originalContent |-> content, modifiedContent |-> Undefined,
     severity |-> "high", guardrailType |-> "system_error"]

\* the verdict pushed in the catch block in strict mode
SystemError(g, content) ==
    [action |-> "block", reason |-> <<"Guardrail system error: ", g>>,
     originalContent |-> content, modifiedContent |-> Undefined,
     severity |-> "critical", guardrailType |-> "system_error"]

\* mutant: a modify verdict does not replace the working content
ApplyResult_NoChaining(acc, r) ==
    [acc EXCEPT
        !.rs = r.rs,
        !.results = Append(@, r.result),
        !.blocked = @ \/ r.result.action = "block",
        !.flagged = @ \/ r.result.action = "flag"]

\* mutant: a flag verdict blocks as well
ApplyResult_FlagBlocks(acc, r) ==
    [acc EXCEPT
        !.rs = r.rs,
        !.results = Append(@, r.result),
        !.blocked = @ \/ r.result.action \in {"block", "flag"},
        !.processedContent =
            IF r.result.action = "modify" /\ Truthy(r.result.modifiedContent)
            THEN r.result.modifiedContent ELSE @,
        !.flagged = @ \/ r.result.action = "flag"]

\* lines 99-114: the check has returned r = [result, rs]; results.push and the
\* switch on result.action
ApplyResult(acc, r) ==
    [acc EXCEPT
        !.rs = r.rs,
        !.results = Append(@, r.result),
        !.blocked = @ \/ r.result.action = "block",
        !.processedContent =
            IF r.result.action = "modify" /\ Truthy(r.result.modifiedContent)
            THEN r.result.modifiedContent ELSE @,
        !.flagged = @ \/ r.result.action = "flag"]

\* mutant: strict mode does not stop the loop
StopAfter_Never(acc, cfg) == acc

\* lines 116-119: in strict mode, stop on first block (stop = the loop is left)
StopAfter(acc, cfg) == [acc EXCEPT !.stop = acc.blocked /\ cfg.strictMode]

\* mutant: a fault blocks and ends the loop without strict mode too
CatchFault_AlwaysBlocks(acc, g, content, cfg) ==
    [acc EXCEPT !.blocked = TRUE,
                !.results = Append(@, SystemError(g, content)),
                !.stop = TRUE]

\* lines 120-135 and 194-209: the catch block around the check of rule g
CatchFault(acc, g, content, cfg) ==
    IF cfg.strictMode
    THEN [acc EXCEPT !.blocked = TRUE,
                     !.results = Append(@, SystemError(g, content)),
                     !.stop = TRUE]
    ELSE acc

\* lines 94-136 and 168-210: one iteration of the loop over this.guardrails.
\* acc = [processedContent, blocked, flagged, results, rs, executed, stop];
\* executed lists the calls made: the rule and the content it was given; stop
\* tells that a break has left the loop.  faults is the set of rules whose
\* check throws in this run; content is the payload the run began with.
Iterate(phase, g, acc, content, ctx, cfg, enabled, faults, t) ==
    LET called == [acc EXCEPT !.executed =
                      Append(@, [rule |-> g, content |-> acc.processedContent])]
    IN  IF g \notin enabled
        THEN acc
        ELSE IF g \in faults
        THEN CatchFault(called, g, content, cfg)
        ELSE StopAfter(ApplyResult(called,
                           Check(phase, g, acc.processedContent, ctx, acc.rs, t)),
                       cfg)

\* the loop from index i to its end or to a break
RECURSIVE RunGuardrails(_, _, _, _, _, _, _, _, _)
RunGuardrails(phase, i, acc, content, ctx, cfg, enabled, faults, t) ==
    IF i > Len(guardrails) \/ acc.stop
    THEN acc
    ELSE RunGuardrails(phase, i + 1,
                       Iterate(phase, guardrails[i], acc, content, ctx, cfg, enabled, faults, t),
                       content, ctx, cfg, enabled, faults, t)

\* mutant: the filter on action and severity applies whatever the logLevel
Significant_IgnoresAll(result, cfg) ==
    \/ result.action # "allow"
    \/ result.severity = "high"
    \/ result.severity = "critical"

\* lines 259-265: the verdicts logResults persists
Significant(result, cfg) ==
    \/ cfg.logLevel = "all"
    \/ result.action # "allow"
    \/ result.severity = "high"
    \/ result.severity = "critical"

LogEntry(result, phase) ==
    [action |-> result.action, reason |-> <<phase>> \o result.reason,
     guardrailType |-> result.guardrailType, severity |-> result.severity]

\* mutant: the first db.insert that throws ends the logging
logResults_StopsAtFailure(results, phase, cfg, dbFails) ==
    IF cfg.logLevel = "none"
    THEN <<>>
    ELSE LET significantResults == SelectSeq(results, LAMBDA r : Significant(r, cfg))
             failed == {i \in 1..Len(significantResults) : i \in dbFails}
             n == IF failed = {} THEN Len(significantResults) ELSE Min(failed) - 1
         IN  [i \in 1..n |-> LogEntry(significantResults[i], phase)]

\* logResults: the entries the database holds afterwards; dbFails is the set
\* of positions (among the significant verdicts) at which db.insert throws
logResults(results, phase, cfg, dbFails) ==
    IF cfg.logLevel = "none"
    THEN <<>>
    ELSE LET significantResults == SelectSeq(results, LAMBDA r : Significant(r, cfg))
             kept == {i \in 1..Len(significantResults) : i \notin dbFails}
             RECURSIVE Inserted(_)
             Inserted(i) ==
                 IF i > Len(significantResults) THEN <<>>
                 ELSE (IF i \in kept THEN <<LogEntry(significantResults[i], phase)>> ELSE <<>>)
                      \o Inserted(i + 1)
         IN  Inserted(1)

WhitelistResult(content) ==
    [action |-> "allow", reason |-> <<"Content is whitelisted">>, originalContent |-> content,
     modifiedContent |-> Undefined, severity |-> "low", guardrailType |-> "whitelist"]

BlacklistResult(content) ==
    [action |-> "block", reason |-> <<"Content is blacklisted">>, originalContent |-> content,
     modifiedContent |-> Undefined, severity |-> "high", guardrailType |-> "blacklist"]

\* what a run returns, with what it did: hasFlagged tells whether the returned
\* object has a flagged field; executed and persisted record the rule calls
\* made and the log entries inserted; rs is the rules' state afterwards
Outcome(allowed, content, results, hasFlagged, flagged, executed, persisted, rs) ==
    [allowed |-> allowed, content |-> content, results |-> results,
     hasFlagged |-> hasFlagged, flagged |-> flagged,
     executed |-> executed, persisted |-> persisted, rs |-> rs]

\* lines 138-149 and 212-223
Finish(acc, phase, cfg, dbFails) ==
    Outcome(~acc.blocked, acc.processedContent, acc.results, TRUE, acc.flagged,
            acc.executed, logResults(acc.results, phase, cfg, dbFails), acc.rs)

StartAcc(content, blocked, results, rs) ==
    [processedContent |-> content, blocked |-> blocked, flagged |-> FALSE,
     results |-> results, rs |-> rs, executed |-> <<>>, stop |-> FALSE]

\* mutant: a blacklisted payload is rejected at once, no rule runs
processInput_BlacklistShortCircuits(content, ctx, cfg, enabled, rs, t, faults, dbFails) ==
    IF ~cfg.enabled
    THEN Outcome(TRUE, content, <<>>, FALSE, FALSE, <<>>, <<>>, rs)
    ELSE IF isWhitelisted(content, cfg)
    THEN Outcome(TRUE, content, <<WhitelistResult(content)>>, FALSE, FALSE, <<>>, <<>>, rs)
    ELSE IF isBlacklisted(content, cfg)
    THEN Finish(StartAcc(content, TRUE, <<BlacklistResult(content)>>, rs), "input", cfg, dbFails)
    ELSE Finish(RunGuardrails("input", 1, StartAcc(content, FALSE, <<>>, rs),
                              content, ctx, cfg, enabled, faults, t),
                "input", cfg, dbFails)

\* GuardrailsMiddleware.processInput
processInput(content, ctx, cfg, enabled, rs, t, faults, dbFails) ==
    IF ~cfg.enabled
    THEN Outcome(TRUE, content, <<>>, FALSE, FALSE, <<>>, <<>>, rs)
    ELSE IF isWhitelisted(content, cfg)
    THEN Outcome(TRUE, content, <<WhitelistResult(content)>>, FALSE, FALSE, <<>>, <<>>, rs)
    ELSE LET black == isBlacklisted(content, cfg)
             start == StartAcc(content, black,
                               IF black THEN <<BlacklistResult(content)>> ELSE <<>>, rs)
         IN  Finish(RunGuardrails("input", 1, start, content, ctx, cfg, enabled, faults, t),
                    "input", cfg, dbFails)

\* mutant: the enabled flag of the configuration is not consulted
processOutput_IgnoresEnabled(content, ctx, cfg, enabled, rs, t, faults, dbFails) ==
    Finish(RunGuardrails("output", 1, StartAcc(content, FALSE, <<>>, rs),
                         content, ctx, cfg, enabled, faults, t),
           "output", cfg, dbFails)

\* GuardrailsMiddleware.processOutput
processOutput(content, ctx, cfg, enabled, rs, t, faults, dbFails) ==
    IF ~cfg.enabled
    THEN Outcome(TRUE, content, <<>>, FALSE, FALSE, <<>>, <<>>, rs)
    ELSE Finish(RunGuardrails("output", 1, StartAcc(content, FALSE, <<>>, rs),
                              content, ctx, cfg, enabled, faults, t),
                "output", cfg, dbFails)

----------------------------------------------------------------------------
(* middleware.ts: processInput and processOutput as asynchronous functions. *)
(* A call runs without interruption up to its next await; the checks of the *)
(* rules hold no await, so a check and the changes it makes to its rule     *)
(* object are one step.  A task is [op, phase, content, ctx, i, acc, state, *)
(* out]: i is the index the loop goes on from, state is "awaiting" or       *)
(* "returned".  The verdict of a check is applied here with the check; the  *)
(* code applies it after the await, which only touches the call's locals.   *)

NoOutcome == [absent |-> TRUE]

\* the loop goes on from task.i on the rules' state rs: it skips the disabled
\* rules, calls the next enabled rule and awaits its verdict (lines 95-99); with
\* no rule left, or after a break, lines 138-149 end the call
Step(task, cfg, enabled, rs, t) ==
    LET pending == {j \in task.i..Len(guardrails) : guardrails[j] \in enabled}
        acc == [task.acc EXCEPT !.rs = rs]
    IN  IF task.acc.stop \/ pending = {}
        THEN [task EXCEPT !.state = "returned",
                          !.acc = acc,
                          !.out = Finish(acc, task.phase, cfg, {})]
        ELSE [task EXCEPT !.i = Min(pending) + 1,
                          !.acc = Iterate(task.phase, guardrails[Min(pending)], acc,
                                          task.content, task.ctx, cfg, enabled, {}, t)]

\* mutant: the call awaits before its first rule is called
Begin_AwaitsFirst(op, content, ctx, cfg, enabled, rs, t) ==
    [op |-> op, phase |-> IF op = "processInput" THEN "input" ELSE "output",
     content |-> content, ctx |-> ctx, i |-> 1,
     acc |-> StartAcc(content, FALSE, <<>>, rs),
     state |-> IF cfg.enabled THEN "awaiting" ELSE "returned",
     out |-> IF cfg.enabled THEN NoOutcome
             ELSE Outcome(TRUE, content, <<>>, FALSE, FALSE, <<>>, <<>>, rs)]

\* processInput / processOutput from the call to the first await (lines 46-99
\* and 152-173)
Begin(op, content, ctx, cfg, enabled, rs, t) ==
    LET black == op = "processInput" /\ isBlacklisted(content, cfg)
        task == [op |-> op, phase |-> IF op = "processInput" THEN "input" ELSE "output",
                 content |-> content, ctx |-> ctx, i |-> 1,
                 acc |-> StartAcc(content, black,
                                  IF black THEN <<BlacklistResult(content)>> ELSE <<>>, rs),
                 state |-> "awaiting", out |-> NoOutcome]
    IN  IF ~cfg.enabled
        THEN [task EXCEPT !.state = "returned",
                          !.out = Outcome(TRUE, content, <<>>, FALSE, FALSE, <<>>, <<>>, rs)]
        ELSE IF op = "processInput" /\ isWhitelisted(content, cfg)
        THEN [task EXCEPT !.state = "returned",
                          !.out = Outcome(TRUE, content, <<WhitelistResult(content)>>,
                                          FALSE, FALSE, <<>>, <<>>, rs)]
        ELSE Step(task, cfg, enabled, rs, t)

----------------------------------------------------------------------------
(* config/models.ts: modelConfigs and calculateCost.  A price per 1K tokens *)
(* is given in units of 10^-5 USD (0.00015 USD is 15), a cost in units of  *)
(* 10^-8 USD, so that cost = tokens * price without a division.            *)

ModelConfig(id, provider, inputTokens, outputTokens, tier, contextWindow) ==
    [id |-> id, provider |-> provider,
     pricing |-> [inputTokens |-> inputTokens, outputTokens |-> outputTokens, tier |-> tier],
     capabilities |-> [contextWindow |-> contextWindow],
     enabled |-> TRUE]

\* the catalog, in the order of the object's keys
modelConfigs ==
    << ModelConfig("gpt-4o", "openai", 500, 1500, "premium", 128000),
       ModelConfig("gpt-4o-mini", "openai", 15, 60, "standard", 128000),
       ModelConfig("claude-3-5-sonnet-20241022", "anthropic", 300, 1500, "premium", 200000),
       ModelConfig("claude-3-5-haiku-20241022", "anthropic", 80, 400, "standard", 200000),
       ModelConfig("grok-beta", "xai", 500, 1500, "premium", 131072),
       ModelConfig("meta-llama/llama-3.2-90b-vision-instruct", "openrouter", 90, 90,
                   "premium", 131072),
       ModelConfig("anthropic/claude-3.5-sonnet", "openrouter", 300, 1500, "premium", 200000),
       ModelConfig("llama-3.1-sonar-large-128k-online", "perplexity", 100, 100,
                   "premium", 127072),
       ModelConfig("llama-3.1-sonar-small-128k-online", "perplexity", 20, 20,
                   "standard", 127072) >>

ModelIds == {modelConfigs[i].id : i \in 1..Len(modelConfigs)}

NoConfig == [absent |-> TRUE]

\* modelConfigs is an object literal, so modelConfigs[name] is defined also for
\* the names an object inherits from Object.prototype (two of them here): the
\* value is a function, which is truthy and has none of the fields of a
\* configuration (provider and enabled are undefined; "undefined" is how the
\* missing provider name reads in a message)
InheritedNames == {"constructor", "toString"}

Inherited == [inherited |-> TRUE, provider |-> "undefined", enabled |-> FALSE]

\* modelConfigs[modelId]
getModelById(modelId) ==
    IF modelId \in ModelIds
    THEN modelConfigs[CHOOSE i \in 1..Len(modelConfigs) : modelConfigs[i].id = modelId]
    ELSE IF modelId \in InheritedNames
    THEN Inherited
    ELSE NoConfig

\* mutant: the output tokens are not charged
calculateCost_InputOnly(modelId, inputTokens, outputTokens) ==
    LET model == getModelById(modelId)
    IN  IF model = NoConfig THEN 0
        ELSE inputTokens * model.pricing.inputTokens

calculateCost(modelId, inputTokens, outputTokens) ==
    LET model == getModelById(modelId)
    IN  IF model = NoConfig THEN 0
        ELSE LET inputCost  == inputTokens * model.pricing.inputTokens
                 outputCost == outputTokens * model.pricing.outputTokens
             IN  inputCost + outputCost

----------------------------------------------------------------------------
(* AIProviderRegistry (src/lib/config/models.ts, lines 327-430) *)

\* the providers registered by the constructor, in the order of registration
registered == <<"openai", "anthropic", "xai", "openrouter", "perplexity", "groq">>

providers == Range(registered)

Failure(error) == [ok |-> FALSE, error |-> error]

getProvider(providerName, init) ==
    IF providerName \notin providers
    THEN Failure(<<"Provider ", providerName, " not found">>)
    ELSE IF providerName \notin Range(init)
    THEN Failure(<<"Provider ", providerName, " not initialized">>)
    ELSE [ok |-> TRUE, provider |-> providerName]

getProviderForModel(modelId, init) ==
    LET modelConfig == getModelById(modelId)
    IN  IF modelConfig = NoConfig
        THEN Failure(<<"Model ", modelId, " not found">>)
        ELSE getProvider(modelConfig.provider, init)

\* no provider name: the argument of getHealthyProvider() left out
NoProvider == "<no provider>"

\* Set.prototype.add: a new element goes to the end, a present one stays
SetAdd(s, x) == IF x \in Range(s) THEN s ELSE Append(s, x)

\* initializeProvider, lines 346-354; ok: provider.initialize resolved
initializeProvider(providerName, init, ok) ==
    IF providerName \notin providers
    THEN [initialized |-> init,
          result |-> Failure(<<"Provider ", providerName, " not found">>)]
    ELSE IF ~ok
    THEN [initialized |-> init, result |-> Failure(<<"initialize rejected">>)]
    ELSE [initialized |-> SetAdd(init, providerName), result |-> [ok |-> TRUE]]

\* getHealthyProvider, lines 378-380
providersToCheck(preferredProvider, init) ==
    IF preferredProvider # NoProvider
    THEN <<preferredProvider>> \o SelectSeq(init, LAMBDA p : p # preferredProvider)
    ELSE init

\* lines 382-389: the loop from name number pr.i up to the first name that has
\* a registered provider, whose isHealthy is awaited, or to the throw after
\* the loop
RECURSIVE ProbeSelect(_)
ProbeSelect(pr) ==
    IF pr.i > Len(pr.toCheck)
    THEN [pr EXCEPT !.phase = "thrown", !.error = <<"No healthy providers available">>]
    ELSE IF pr.toCheck[pr.i] \notin providers
    THEN ProbeSelect([pr EXCEPT !.i = @ + 1])
    ELSE [pr EXCEPT !.phase = "probing"]

\* getHealthyProvider up to its first await
ProbeStart(preferredProvider, init) ==
    ProbeSelect([phase |-> "select", preferred |-> preferredProvider,
                 toCheck |-> providersToCheck(preferredProvider, init), i |-> 1,
                 probed |-> <<>>, provider |-> NoProvider, error |-> <<>>])

\* lines 384-386: provider.isHealthy() resolved
ProbeAnswer(pr, healthy) ==
    IF healthy
    THEN [pr EXCEPT !.phase = "returned", !.provider = pr.toCheck[pr.i],
                    !.probed = Append(@, [provider |-> pr.toCheck[pr.i], healthy |-> TRUE])]
    ELSE ProbeSelect([pr EXCEPT !.i = @ + 1,
                                !.probed = Append(@, [provider |-> pr.toCheck[pr.i],
                                                      healthy |-> FALSE])])

----------------------------------------------------------------------------
(* client.ts: AIClient *)

\* Array.prototype.slice(0, n)
Slice(s, n) == SubSeq(s, 1, IF Len(s) < n THEN Len(s) ELSE n)

\* [...new Set(models)]: the first occurrence of every element, in order
RECURSIVE Dedupe(_)
Dedupe(s) ==
    IF s = <<>> THEN <<>>
    ELSE LET init == Dedupe(SubSeq(s, 1, Len(s) - 1))
         IN  IF s[Len(s)] \in Range(init) THEN init ELSE Append(init, s[Len(s)])

InputPrice(c) == c.pricing.inputTokens

Ids(configs) == [i \in 1..Len(configs) |-> configs[i].id]

\* mutant: the candidates are taken in the order of the catalog
getAutomaticFallbacks_Unsorted(preferredConfig) ==
    LET sameProviderModels ==
            Ids(SelectSeq(modelConfigs, LAMBDA c :
                    /\ c.provider = preferredConfig.provider
                    /\ c.id # preferredConfig.id
                    /\ c.enabled
                    /\ c.pricing.tier # "premium"))
        crossProviderModels ==
            Ids(SelectSeq(modelConfigs, LAMBDA c :
                    /\ c.provider # preferredConfig.provider
                    /\ c.enabled
                    /\ 2 * c.capabilities.contextWindow
                          >= preferredConfig.capabilities.contextWindow))
    IN  Slice(sameProviderModels, 2) \o Slice(crossProviderModels, 2)

getAutomaticFallbacks(preferredConfig) ==
    LET sameProviderModels ==
            Ids(SortByKey(InputPrice,
                SelectSeq(modelConfigs, LAMBDA c :
                    /\ c.provider = preferredConfig.provider
                    /\ c.id # preferredConfig.id
                    /\ c.enabled
                    /\ c.pricing.tier # "premium")))
        crossProviderModels ==
            Ids(SortByKey(InputPrice,
                SelectSeq(modelConfigs, LAMBDA c :
                    /\ c.provider # preferredConfig.provider
                    /\ c.enabled
                    /\ 2 * c.capabilities.contextWindow
                          >= preferredConfig.capabilities.contextWindow)))
    IN  Slice(sameProviderModels, 2) \o Slice(crossProviderModels, 2)

getModelsToTry(preferredModelId, opts) ==
    LET preferredConfig == getModelById(preferredModelId)
    IN  Dedupe(<<preferredModelId>>
               \o (IF opts.enableFallback
                   THEN opts.fallbackModels
                        \o (IF preferredConfig # NoConfig
                            THEN getAutomaticFallbacks(preferredConfig)
                            ELSE <<>>)
                   ELSE <<>>))

\* a backoff that grows by one base delay per attempt
Pow2_Linear(n) == n + 1

RECURSIVE Pow2(_)
Pow2(n) == IF n = 0 THEN 1 ELSE 2 * Pow2(n - 1)

\* null
NoError == <<>>

\* the error an adapter call of the model fails with
AdapterError(modelId) == <<"request failed: ", modelId>>

\* what provider.generateText returns (the adapter sets model to request.modelId)
AdapterResponse(modelId, usage) ==
    [content |-> <<"reply of ", modelId>>, usage |-> usage, model |-> modelId]

\* line 64: throw lastError || new Error("All models failed")
GenThrow(g) ==
    [g EXCEPT !.phase = "thrown",
              !.error = IF g.lastError = NoError THEN <<"All models failed">> ELSE g.lastError]

\* mutant: a failed fallback is followed by the next candidate too
GenCatch_AlwaysContinues(g, opts) == opts.enableFallback

\* lines 54-60: after a failed candidate, continue with the next (TRUE) or break
GenCatch(g, opts) == g.modelsToTry[g.idx] = g.request.modelId /\ opts.enableFallback

\* lines 29-35 and 50-61: the loop over modelsToTry from candidate g.idx up to
\* the first candidate whose provider is resolved (phase "calling"), or to the
\* end of the loop
RECURSIVE GenSelect(_, _, _)
GenSelect(g, opts, init) ==
    IF g.idx > Len(g.modelsToTry)
    THEN GenThrow(g)
    ELSE LET modelId == g.modelsToTry[g.idx]
             modelConfig == getModelById(modelId)
             next == [g EXCEPT !.idx = @ + 1]
         IN  IF modelConfig = NoConfig \/ ~modelConfig.enabled
             THEN GenSelect(next, opts, init)
             ELSE LET p == getProviderForModel(modelId, init)
                      failed == [g EXCEPT !.lastError = p.error]
                  IN  IF p.ok
                      THEN [g EXCEPT !.phase = "calling", !.attempt = 0]
                      ELSE IF GenCatch(failed, opts)
                      THEN GenSelect([failed EXCEPT !.idx = @ + 1], opts, init)
                      ELSE GenThrow(failed)

\* generateText up to its first adapter call
GenStart(modelId, opts, init) ==
    GenSelect([phase |-> "select", request |-> [modelId |-> modelId],
               modelsToTry |-> getModelsToTry(modelId, opts), idx |-> 1, attempt |-> 0,
               lastError |-> NoError, calls |-> <<>>, delays |-> <<>>, raised |-> <<>>,
               response |-> NoConfig, error |-> NoError],
              opts, init)

\* mutant: the response is labelled and priced as the preferred model
GenReturn_AsPreferred(g, usage) ==
    LET modelId == g.modelsToTry[g.idx]
        response == AdapterResponse(modelId, usage)
    IN  [g EXCEPT !.phase = "returned",
                  !.calls = Append(@, [model |-> modelId, ok |-> TRUE, attempt |-> g.attempt,
                                       transient |-> FALSE]),
                  !.response = [content |-> response.content, usage |-> response.usage,
                                cost |-> calculateCost(g.request.modelId,
                                                       response.usage.inputTokens,
                                                       response.usage.outputTokens),
                                model |-> g.request.modelId]]

\* lines 42-49: the adapter call succeeded
GenReturn(g, usage) ==
    LET modelId == g.modelsToTry[g.idx]
        response == AdapterResponse(modelId, usage)
    IN  [g EXCEPT !.phase = "returned",
                  !.calls = Append(@, [model |-> modelId, ok |-> TRUE, attempt |-> g.attempt,
                                       transient |-> FALSE]),
                  !.response = [content |-> response.content, usage |-> response.usage,
                                cost |-> calculateCost(modelId, response.usage.inputTokens,
                                                       response.usage.outputTokens),
                                model |-> modelId]]

\* mutant: executeWithRetry makes one attempt more
GenFail_OneMoreAttempt(g, opts, init, transient) ==
    LET modelId == g.modelsToTry[g.idx]
        called == [g EXCEPT !.calls = Append(@, [model |-> modelId, ok |-> FALSE,
                                                 attempt |-> g.attempt,
                                                 transient |-> transient])]
        failed == [called EXCEPT !.lastError = AdapterError(modelId),
                                 !.raised = Append(@, [model |-> modelId,
                                                       attempt |-> g.attempt,
                                                       error |-> AdapterError(modelId)])]
    IN  IF g.attempt <= opts.maxRetries
        THEN [called EXCEPT !.phase = "sleeping",
                            !.delays = Append(@, [model |-> modelId, after |-> g.attempt,
                                                  ms |-> opts.retryDelay * Pow2(g.attempt)])]
        ELSE IF GenCatch(failed, opts)
        THEN GenSelect([failed EXCEPT !.idx = @ + 1], opts, init)
        ELSE GenThrow(failed)

\* executeWithRetry, lines 182-192, and the catch of generateText: the adapter
\* call failed, with an error that is transient (a timeout, an overloaded
\* backend) or not (rejected credentials); neither function looks at the kind
\* of the error.  raised lists what executeWithRetry threw (line 192), each
\* with the attempt whose error it is
GenFail(g, opts, init, transient) ==
    LET modelId == g.modelsToTry[g.idx]
        called == [g EXCEPT !.calls = Append(@, [model |-> modelId, ok |-> FALSE,
                                                 attempt |-> g.attempt,
                                                 transient |-> transient])]
        failed == [called EXCEPT !.lastError = AdapterError(modelId),
                                 !.raised = Append(@, [model |-> modelId,
                                                       attempt |-> g.attempt,
                                                       error |-> AdapterError(modelId)])]
    IN  IF g.attempt < opts.maxRetries
        THEN [called EXCEPT !.phase = "sleeping",
                            !.delays = Append(@, [model |-> modelId, after |-> g.attempt,
                                                  ms |-> opts.retryDelay * Pow2(g.attempt)])]
        ELSE IF GenCatch(failed, opts)
        THEN GenSelect([failed EXCEPT !.idx = @ + 1], opts, init)
        ELSE GenThrow(failed)

\* the usage an adapter reports with its done chunk
StreamUsage == [inputTokens |-> 1000, outputTokens |-> 500]

\* provider.streamText of the bundled adapters (anthropic.ts, lines 67-108): the
\* text chunks, then a done chunk with the usage, or, when the backend fails, an
\* error chunk from the catch block; the generator never throws.  script is
\* [texts, ending]: the number of text chunks and how the stream ends; the
\* result is the chunk yielded after pos chunks
AdapterChunk(modelId, script, pos) ==
    IF pos < script.texts
    THEN [type |-> "text", delta |-> <<modelId, pos + 1>>]
    ELSE IF script.ending = "done"
    THEN [type |-> "done", usage |-> StreamUsage]
    ELSE [type |-> "error", error |-> AdapterError(modelId)]

\* mutant: the done chunk is forwarded as the adapter yielded it
ForwardChunk_Unpriced(modelId, chunk) == chunk

\* lines 83-99: the chunk the client yields for a chunk of the adapter
ForwardChunk(modelId, chunk) ==
    IF chunk.type = "done"
    THEN [type |-> "done",
          usage |-> [inputTokens |-> chunk.usage.inputTokens,
                     outputTokens |-> chunk.usage.outputTokens,
                     cost |-> calculateCost(modelId, chunk.usage.inputTokens,
                                            chunk.usage.outputTokens)]]
    ELSE chunk

\* lines 117-121: the error chunk after the loop
StreamGiveUp(s) ==
    [s EXCEPT !.phase = "ended",
              !.delivered = Append(@, [type |-> "error",
                                       error |-> IF s.lastError = NoError
                                                 THEN <<"All models failed">>
                                                 ELSE s.lastError])]

\* lines 107-113: after a failed candidate, continue with the next (TRUE) or break
StreamCatch(s, opts) == s.modelsToTry[s.idx] = s.request.modelId /\ opts.enableFallback

\* lines 71-82 and 103-114: the loop over modelsToTry from candidate s.idx up to
\* the first candidate whose provider is resolved and whose stream is opened
RECURSIVE StreamSelect(_, _, _)
StreamSelect(s, opts, init) ==
    IF s.idx > Len(s.modelsToTry)
    THEN StreamGiveUp(s)
    ELSE LET modelId == s.modelsToTry[s.idx]
             modelConfig == getModelById(modelId)
         IN  IF modelConfig = NoConfig \/ ~modelConfig.enabled
             THEN StreamSelect([s EXCEPT !.idx = @ + 1], opts, init)
             ELSE LET p == getProviderForModel(modelId, init)
                      failed == [s EXCEPT !.lastError = p.error]
                  IN  IF p.ok
                      THEN [s EXCEPT !.phase = "streaming",
                                     !.invoked = Append(@, modelId),
                                     !.pos = 0]
                      ELSE IF StreamCatch(failed, opts)
                      THEN StreamSelect([failed EXCEPT !.idx = @ + 1], opts, init)
                      ELSE StreamGiveUp(failed)

\* streamText up to the first stream it opens
StreamStart(modelId, opts, init) ==
    StreamSelect([phase |-> "select", request |-> [modelId |-> modelId],
                  modelsToTry |-> getModelsToTry(modelId, opts), idx |-> 1,
                  lastError |-> NoError, delivered |-> <<>>, invoked |-> <<>>, pos |-> 0],
                 opts, init)

\* mutant: a stream that ended with an error chunk is followed by the next candidate
StreamAfterEnd_FallsBack(s, opts, init) ==
    IF s.delivered[Len(s.delivered)].type = "error"
    THEN StreamSelect([s EXCEPT !.idx = @ + 1], opts, init)
    ELSE [s EXCEPT !.phase = "ended"]

\* line 102: the adapter's stream is over, streamText returns
StreamAfterEnd(s, opts, init) == [s EXCEPT !.phase = "ended"]

----------------------------------------------------------------------------
(* The state of the parts that take no step in a specification *)

Idle == [phase |-> "idle"]

\* the options of new AIClient()
DefaultOptions ==
    [maxRetries |-> 3, retryDelay |-> 1000, fallbackModels |-> <<>>, enableFallback |-> TRUE]

\* every backend answers; a stream is one text chunk and the done chunk
HealthyAdapter ==
    [generate |-> [m \in ModelIds |-> "ok"],
     stream   |-> [m \in ModelIds |-> [texts |-> 1, ending |-> "done"]]]

Context(userId, userTier, educational) ==
    [userId |-> userId, userTier |-> userTier, educational |-> educational]

Identities == {"u1", "u2"}
Keys == Identities \cup {"anonymous"}

ZeroLastIndex ==
    [harmful     |-> [i \in 1..Len(harmfulPatterns) |-> 0],
     injection   |-> [i \in 1..Len(injectionPatterns) |-> 0],
     suspicious  |-> [i \in 1..Len(suspiciousStructures) |-> 0],
     incomplete  |-> [i \in 1..9 |-> 0],
     syntaxError |-> [i \in 1..9 |-> 0]]

\* new GuardrailsMiddleware(): the defaults of the constructor, all rules enabled
IdlePipeline ==
    /\ config = [enabled |-> TRUE, strictMode |-> FALSE, logLevel |-> "all",
                 whitelist |-> <<>>, blacklist |-> <<>>]
    /\ enabledRules = Range(guardrails)
    /\ lastIndex = ZeroLastIndex
    /\ runs = 0
    /\ tasks = <<>>

\* new RateLimitGuardrail(): no entry yet
IdleLimiter ==
    /\ userLimits = [k \in Keys |-> NoEntry]
    /\ now = 0
    /\ caller = Context(NoUser, "free", FALSE)

\* new AIClient(), new AIProviderRegistry(): no provider initialized, no call made
IdleClient ==
    /\ options = DefaultOptions
    /\ initialized = <<>>
    /\ adapter = HealthyAdapter
    /\ gen = Idle
    /\ stream = Idle
    /\ probe = Idle

IdleCost == costCall = Idle

----------------------------------------------------------------------------
(* The pipeline as a state machine: specification Spec *)

MaxRuns == 2

AllRules == Range(guardrails)

\* the configurations the middleware is constructed with
ListChoices ==
    { [whitelist |-> <<>>,        blacklist |-> <<>>],
      [whitelist |-> <<>>,        blacklist |-> <<"spam", "kill">>],
      [whitelist |-> <<"hello">>, blacklist |-> <<"spam", "kill">>] }

ConfigChoices ==
    { [enabled |-> e, strictMode |-> s, logLevel |-> "all",
       whitelist |-> l.whitelist, blacklist |-> l.blacklist] :
      e \in BOOLEAN, s \in BOOLEAN, l \in ListChoices }

\* the enabled fields of the rule objects (all true as constructed; the objects
\* are handed out by getGuardrails())
EnabledChoices == { AllRules, {RateLimitType, PromptInjectionType} }

InputPayloads ==
    { <<"hello">>, <<"kill">>, <<"spam">>, <<"hello", "kill">>,
      <<"call", "me", "at", "555-123-4567">>,
      <<"555-123-4567", "jailbreak">>, <<"555-123-4567", "<system>">> }

OutputPayloads ==
    { <<"hello">>, <<"kill">>, <<"my prompt">>, <<"call", "me", "at", "555-123-4567">>,
      <<"~~~// TODO: x~~~">>, <<"~~~f({~~~">> }

InputCalls ==
    { [content |-> c, ctx |-> Context(u, "free", FALSE)] :
      c \in InputPayloads, u \in {"u1", NoUser} }

OutputCalls ==
    { [content |-> c, ctx |-> Context(u, "free", FALSE)] :
      c \in OutputPayloads, u \in {"u1", NoUser} }
    \cup { [content |-> c, ctx |-> Context("u1", "free", TRUE)] :
           c \in {<<"kill">>, <<"hello">>} }

Init ==
    /\ config \in ConfigChoices
    /\ enabledRules \in EnabledChoices
    /\ lastIndex = ZeroLastIndex
    /\ runs = 0
    /\ tasks = <<>>
    /\ IdleLimiter
    /\ IdleClient
    /\ IdleCost
    /\ last = [op |-> "none"]

\* the record kept of a pipeline run: the call, what failed during it (the
\* rules whose check throws, the positions at which db.insert throws), the
\* state before it and the outcome
RunRecord(op, content, ctx, faults, dbFails, out) ==
    [op |-> op, content |-> content, ctx |-> ctx, faults |-> faults, dbFails |-> dbFails,
     before |-> [userLimits |-> userLimits, lastIndex |-> lastIndex],
     allowed |-> out.allowed, outContent |-> out.content, results |-> out.results,
     hasFlagged |-> out.hasFlagged, flagged |-> out.flagged,
     executed |-> out.executed, persisted |-> out.persisted]

\* a run has returned out: the rule objects hold their new state
Returned(op, content, ctx, faults, dbFails, out) ==
    /\ userLimits' = out.rs.userLimits
    /\ lastIndex' = out.rs.lastIndex
    /\ last' = RunRecord(op, content, ctx, faults, dbFails, out)

\* a call of guardrailsMiddleware.processInput(content, ctx)
CallProcessInput(content, ctx, faults, dbFails) ==
    /\ runs < MaxRuns
    /\ Returned("processInput", content, ctx, faults, dbFails,
                processInput(content, ctx, config, enabledRules,
                             [userLimits |-> userLimits, lastIndex |-> lastIndex],
                             now, faults, dbFails))
    /\ runs' = runs + 1
    /\ UNCHANGED <<config, enabledRules, tasks, now, caller, clientVars, costCall>>

\* a call of guardrailsMiddleware.processOutput(content, ctx)
CallProcessOutput(content, ctx, faults, dbFails) ==
    /\ runs < MaxRuns
    /\ Returned("processOutput", content, ctx, faults, dbFails,
                processOutput(content, ctx, config, enabledRules,
                              [userLimits |-> userLimits, lastIndex |-> lastIndex],
                              now, faults, dbFails))
    /\ runs' = runs + 1
    /\ UNCHANGED <<config, enabledRules, tasks, now, caller, clientVars, costCall>>

Next ==
    \/ \E call \in InputCalls : CallProcessInput(call.content, call.ctx, {}, {})
    \/ \E call \in OutputCalls : CallProcessOutput(call.content, call.ctx, {}, {})

Spec == Init /\ [][Next]_vars

----------------------------------------------------------------------------
(* Properties of the pipeline, checked under Spec *)

IsRun == last.op \in {"processInput", "processOutput"}

\* the payload holds a word of the list
ListedIn(list, content) == \E i \in 1..Len(list) : list[i] \in Range(content)

\* the last run came to the loop over the rules
ReachedRules ==
    /\ IsRun
    /\ config.enabled
    /\ ~(last.op = "processInput" /\ ListedIn(config.whitelist, last.content))

\* the last run recorded a blacklist verdict
BlacklistHit ==
    /\ last.op = "processInput"
    /\ ListedIn(config.blacklist, last.content)

\* number of verdicts that precede the rules' verdicts
Offset == IF BlacklistHit THEN 1 ELSE 0

\* the verdict of the j-th rule call of the last run
RuleVerdict(j) == last.results[j + Offset]

\* the enabled rules, in the order of this.guardrails
EnabledInOrder == SelectSeq(guardrails, LAMBDA g : g \in enabledRules)

ExecutedRules == [j \in 1..Len(last.executed) |-> last.executed[j].rule]

\* C1: with the pipeline enabled, a payload that matches a whitelist pattern is
\* allowed even when it also matches a blacklist pattern: allowed is true, the
\* only verdict is the synthetic whitelist allow verdict, no rule is called and
\* no rate-limit entry changes.
C1_WhitelistShortCircuits ==
    (last.op = "processInput" /\ config.enabled /\ ListedIn(config.whitelist, last.content))
    => /\ last.allowed
       /\ Len(last.results) = 1
       /\ last.results[1].guardrailType = "whitelist"
       /\ last.results[1].action = "allow"
       /\ last.outContent = last.content
       /\ last.executed = <<>>
       /\ userLimits = last.before.userLimits

\* a whitelisted and blacklisted payload was processed for an identity that
\* already had a rate-limit entry
C1_Witness ==
    /\ last.op = "processInput"
    /\ config.enabled
    /\ ListedIn(config.whitelist, last.content)
    /\ ListedIn(config.blacklist, last.content)
    /\ last.before.userLimits[UserKey(last.ctx)] # NoEntry
    /\ RateLimitType \in enabledRules
    /\ last.allowed

\* C2: in strict mode, once a rule returns a block verdict no later rule is
\* called in that run; without strict mode every enabled rule is called, in
\* order, whatever was blocked before, and the verdicts are one per enabled
\* rule plus the blacklist verdict when the blacklist matched.
C2_StrictStopsOnBlock ==
    ReachedRules
    => /\ Len(last.results) = Offset + Len(last.executed)
       /\ \A j \in 1..Len(last.executed) :
             RuleVerdict(j).guardrailType = last.executed[j].rule
       /\ config.strictMode
          => \A j \in 1..Len(last.executed) :
                RuleVerdict(j).action = "block" => j = Len(last.executed)
       /\ ~config.strictMode
          => /\ ExecutedRules = EnabledInOrder
             /\ Len(last.results) = Cardinality(enabledRules) + Offset

\* strict mode: a rule blocked and an enabled rule of lower priority was not called
C2_Witness ==
    /\ ReachedRules
    /\ config.strictMode
    /\ ~BlacklistHit
    /\ Len(last.executed) >= 2
    /\ RuleVerdict(Len(last.executed)).action = "block"
    /\ Len(last.executed) < Cardinality(enabledRules)

\* the content the j-th rule call must see: the modifiedContent of the latest
\* earlier modify verdict, or the payload of the run when there is none
ChainedContent(j) ==
    LET mods == {k \in 1..(j - 1) : RuleVerdict(k).action = "modify"}
    IN  IF mods = {} THEN last.content
        ELSE RuleVerdict(CHOOSE k \in mods : \A m \in mods : m <= k).modifiedContent

\* C3: content mutation is chained: the modifiedContent of a modify verdict is
\* the content given to every rule called after it in the run, and, when no
\* later rule modifies it again, the content of the result.
C3_ModifyIsChained ==
    ReachedRules
    => /\ \A j \in 1..Len(last.executed) : last.executed[j].content = ChainedContent(j)
       /\ last.outContent = ChainedContent(Len(last.executed) + 1)

\* the content-safety rule redacted the phone number of "call me at 555-123-4567"
\* and two more rules ran on the redacted text, which is also the result
C3_Witness ==
    /\ last.op = "processInput"
    /\ ReachedRules
    /\ last.content = <<"call", "me", "at", "555-123-4567">>
    /\ Len(last.executed) = 4
    /\ RuleVerdict(2).action = "modify"
    /\ RuleVerdict(2).guardrailType = ContentSafetyType
    /\ RuleVerdict(2).modifiedContent = <<"call", "me", "at", "[REDACTED]">>
    /\ last.executed[3].content = <<"call", "me", "at", "[REDACTED]">>
    /\ last.executed[4].content = <<"call", "me", "at", "[REDACTED]">>
    /\ last.outContent = <<"call", "me", "at", "[REDACTED]">>

\* C9: with the pipeline disabled, processInput and processOutput return
\* allowed = true, the content unchanged and no verdict; no rule is called (the
\* rules' state is as before) and no log entry is persisted.
C9_DisabledPassesThrough ==
    (IsRun /\ ~config.enabled)
    => /\ last.allowed
       /\ last.outContent = last.content
       /\ last.results = <<>>
       /\ last.executed = <<>>
       /\ last.persisted = <<>>
       /\ userLimits = last.before.userLimits
       /\ lastIndex = last.before.lastIndex

\* a disabled pipeline was given, in its second run, an output that the rules
\* of an enabled pipeline block and log
C9_Witness ==
    /\ ~config.enabled
    /\ last.op = "processOutput"
    /\ runs = 2
    /\ last.content = <<"kill">>
    /\ ~last.ctx.educational
    /\ enabledRules = AllRules
    /\ config.logLevel = "all"

\* C10 as stated: a blacklist match records a blocking verdict and every
\* enabled rule still runs afterwards, in strict and in non-strict mode, and
\* allowed is false.
C10_Original ==
    (ReachedRules /\ BlacklistHit)
    => /\ last.results[1].guardrailType = "blacklist"
       /\ last.results[1].action = "block"
       /\ ExecutedRules = EnabledInOrder
       /\ Len(last.results) = 1 + Cardinality(enabledRules)
       /\ ~last.allowed

\* C10 amended: a blacklist match records a blocking verdict first and allowed
\* is false; without strict mode every enabled rule still runs and its verdict
\* follows the blacklist verdict; in strict mode only the first enabled rule
\* runs, and the loop stops after it.
C10_BlacklistAccumulates ==
    (ReachedRules /\ BlacklistHit)
    => /\ last.results[1].guardrailType = "blacklist"
       /\ last.results[1].action = "block"
       /\ ~last.allowed
       /\ Len(last.results) = 1 + Len(last.executed)
       /\ ~config.strictMode => ExecutedRules = EnabledInOrder
       /\ config.strictMode => ExecutedRules = SubSeq(EnabledInOrder, 1, 1)

\* strict mode, a blacklisted payload: one rule of four ran
C10_Witness ==
    /\ ReachedRules
    /\ BlacklistHit
    /\ config.strictMode
    /\ enabledRules = AllRules
    /\ Len(last.executed) = 1
    /\ Len(last.results) = 2
    /\ ~last.allowed

\* C15: on every processOutput run of the enabled pipeline the rate limiter's
\* checkOutput is the first rule called and takes one from the concurrent
\* counter of the caller's entry, unless it is 0 already (or there is no
\* entry); this is so when a later rule blocks the output and in strict mode.
\* No other field and no other entry changes, and no counter is ever negative.
C15_OutputReleasesSlot ==
    /\ \A k \in Keys : userLimits[k] # NoEntry => userLimits[k].concurrent >= 0
    /\ (last.op = "processOutput" /\ config.enabled)
       => LET key == UserKey(last.ctx)
              before == last.before.userLimits[key]
          IN  /\ last.executed[1].rule = RateLimitType
              /\ \A k \in Keys \ {key} : userLimits[k] = last.before.userLimits[k]
              /\ before = NoEntry => userLimits[key] = NoEntry
              /\ before # NoEntry
                 => userLimits[key] =
                       [before EXCEPT !.concurrent = IF @ > 0 THEN @ - 1 ELSE 0]

\* strict mode: an output that the content-safety rule blocks released the
\* slot its request had taken
C15_Witness ==
    /\ last.op = "processOutput"
    /\ config.enabled
    /\ config.strictMode
    /\ ~last.allowed
    /\ last.before.userLimits[UserKey(last.ctx)] # NoEntry
    /\ last.before.userLimits[UserKey(last.ctx)].concurrent = 1
    /\ userLimits[UserKey(last.ctx)].concurrent = 0

\* the action that rule call number j of the last run gets from a rule object
\* that was never called before
FreshAction(j) ==
    Check(IF last.op = "processInput" THEN "input" ELSE "output",
          last.executed[j].rule, last.executed[j].content, last.ctx,
          [userLimits |-> last.before.userLimits, lastIndex |-> ZeroLastIndex],
          now).result.action

\* the payload holds a word that one of the expressions matches
MatchesOneOf(patterns, content) ==
    \E i \in 1..Len(patterns) : patterns[i] \cap Range(content) # {}

\* C26: the verdict of the content-safety, the prompt-injection and the
\* completeness rule depends on the content and the context of the call
\* only: a call gets the action it would get from a rule object never used
\* before, however often the call was made before; in particular an input
\* that matches a harmful-topic or an instruction-override pattern is blocked
\* with severity high on every call.
C26_Original ==
    ReachedRules =>
        \A j \in 1..Len(last.executed) :
            /\ last.executed[j].rule # RateLimitType
               => RuleVerdict(j).action = FreshAction(j)
            /\ (/\ last.op = "processInput"
                /\ \/ /\ last.executed[j].rule = ContentSafetyType
                      /\ MatchesOneOf(harmfulPatterns, last.executed[j].content)
                   \/ /\ last.executed[j].rule = PromptInjectionType
                      /\ MatchesOneOf(injectionPatterns, last.executed[j].content))
               => RuleVerdict(j).action = "block" /\ RuleVerdict(j).severity = "high"

----------------------------------------------------------------------------
(* The pipeline with failing collaborators: specification SpecFault.  In a  *)
(* run the check of some rules throws (before it changes the rule's state)  *)
(* and db.insert throws for some of the verdicts logged.                    *)

\* the rules whose check throws in a run
FaultChoices ==
    { {}, {RateLimitType}, {ContentSafetyType}, {PromptInjectionType, CompletenessType} }

\* the positions, among the verdicts logged in a run, at which db.insert throws
DbFailChoices == { {}, {1}, {2}, {1, 3} }

FaultConfigChoices ==
    { c \in ConfigChoices : c.whitelist = <<"hello">> }

FaultInputCalls ==
    { [content |-> c, ctx |-> Context("u1", "free", FALSE)] :
      c \in { <<"hello">>, <<"kill">>, <<"spam">>, <<"call", "me", "at", "555-123-4567">>,
              <<"555-123-4567", "<system>">> } }

FaultOutputCalls ==
    { [content |-> c, ctx |-> Context("u1", "free", FALSE)] :
      c \in { <<"hello">>, <<"kill">>, <<"call", "me", "at", "555-123-4567">>,
              <<"~~~// TODO: x~~~">> } }

InitFault ==
    /\ config \in FaultConfigChoices
    /\ enabledRules \in EnabledChoices
    /\ lastIndex = ZeroLastIndex
    /\ runs = 0
    /\ tasks = <<>>
    /\ IdleLimiter
    /\ IdleClient
    /\ IdleCost
    /\ last = [op |-> "none"]

NextFault ==
    \/ \E call \in FaultInputCalls, faults \in FaultChoices, dbFails \in DbFailChoices :
          CallProcessInput(call.content, call.ctx, faults, dbFails)
    \/ \E call \in FaultOutputCalls, faults \in FaultChoices, dbFails \in DbFailChoices :
          CallProcessOutput(call.content, call.ctx, faults, dbFails)

SpecFault == InitFault /\ [][NextFault]_vars

----------------------------------------------------------------------------
(* Properties of the pipeline, checked under SpecFault *)

\* the positions of the verdicts of the last run with the given action
VerdictsWith(action) == {i \in 1..Len(last.results) : last.results[i].action = action}

\* C11: in a run of the enabled pipeline without a whitelist hit, allowed is
\* false exactly when the verdicts hold a block verdict (of the blacklist, of a
\* rule or of a strict-mode system error); flag and modify verdicts do not make
\* allowed false; flagged is true exactly when a rule returned a flag verdict.
C11_AllowedIffNoBlock ==
    ReachedRules
    => /\ last.allowed <=> VerdictsWith("block") = {}
       /\ last.hasFlagged
       /\ last.flagged <=> VerdictsWith("flag") # {}
       /\ \A i \in VerdictsWith("flag") : last.results[i].guardrailType \in AllRules

\* a run with a modify verdict and a flag verdict and no block verdict: allowed
\* and flagged
C11_Witness ==
    /\ ReachedRules
    /\ VerdictsWith("modify") # {}
    /\ VerdictsWith("flag") # {}
    /\ VerdictsWith("block") = {}
    /\ last.allowed
    /\ last.flagged

\* the rule calls of the last run that threw
FaultedCalls == {j \in 1..Len(last.executed) : last.executed[j].rule \in last.faults}

SystemErrors == {i \in 1..Len(last.results) : last.results[i].guardrailType = "system_error"}

\* the call of the last run once more, from the same state, with other rules
\* enabled, other faults and other failures of db.insert
Rerun(enabled, faults, dbFails) ==
    IF last.op = "processInput"
    THEN processInput(last.content, last.ctx, config, enabled, last.before, now, faults, dbFails)
    ELSE processOutput(last.content, last.ctx, config, enabled, last.before, now, faults, dbFails)

\* the last run with the rules that threw switched off instead
RunWithoutFaulted == Rerun(enabledRules \ last.faults, {}, last.dbFails)

\* C12: a fault thrown by a rule does not leave processInput/processOutput (the
\* run returns a result).  In strict mode it becomes a block verdict of type
\* system_error and severity critical, the last verdict of the run, and no
\* further rule is called.  Without strict mode the faulting rule contributes no
\* verdict, every other enabled rule is still called, and allowed, content,
\* flagged and the verdicts are those of the run without that rule.
C12_FaultsAreContained ==
    (ReachedRules /\ FaultedCalls # {})
    => /\ config.strictMode
          => /\ FaultedCalls = {Len(last.executed)}
             /\ SystemErrors = {Len(last.results)}
             /\ last.results[Len(last.results)].action = "block"
             /\ last.results[Len(last.results)].severity = "critical"
             /\ ~last.allowed
       /\ ~config.strictMode
          => /\ SystemErrors = {}
             /\ ExecutedRules = EnabledInOrder
             /\ last.allowed = RunWithoutFaulted.allowed
             /\ last.outContent = RunWithoutFaulted.content
             /\ last.flagged = RunWithoutFaulted.flagged
             /\ last.results = RunWithoutFaulted.results
             /\ userLimits = RunWithoutFaulted.rs.userLimits
             /\ lastIndex = RunWithoutFaulted.rs.lastIndex

\* without strict mode the content-safety rule threw on a payload it blocks;
\* the three other rules ran and the payload was allowed
C12_Witness ==
    /\ ReachedRules
    /\ ~config.strictMode
    /\ last.faults = {ContentSafetyType}
    /\ Range(last.content) = {"kill"}
    /\ enabledRules = AllRules
    /\ Len(last.executed) = 4
    /\ Len(last.results) = 3
    /\ last.allowed

\* C13 as stated: whenever the check of a rule throws, in strict or non-strict
\* mode, the verdicts of the run hold a system_error verdict of severity
\* critical.
C13_Original ==
    (ReachedRules /\ FaultedCalls # {})
    => \E i \in SystemErrors : last.results[i].severity = "critical"

\* C13 amended: in strict mode the verdicts hold one system_error verdict of
\* severity critical, naming the rule that threw; without strict mode the
\* fault leaves no verdict: the verdicts are one per rule call that did not
\* throw (after the blacklist verdict, if any) and none is a system_error.
C13_FaultVerdictInStrictModeOnly ==
    (ReachedRules /\ FaultedCalls # {})
    => /\ config.strictMode
          => /\ Cardinality(SystemErrors) = 1
             /\ \A i \in SystemErrors :
                   /\ last.results[i].severity = "critical"
                   /\ last.results[i].action = "block"
                   /\ last.results[i].reason =
                         <<"Guardrail system error: ", last.executed[Len(last.executed)].rule>>
       /\ ~config.strictMode
          => /\ SystemErrors = {}
             /\ Len(last.results) =
                   Offset + Len(last.executed) - Cardinality(FaultedCalls)

\* strict mode: the third rule called threw after two verdicts, and the run
\* ended with the system_error verdict
C13_Witness ==
    /\ ReachedRules
    /\ config.strictMode
    /\ Len(last.executed) = 3
    /\ FaultedCalls = {3}
    /\ Len(last.results) = 3
    /\ last.results[3].guardrailType = "system_error"
    /\ last.results[3].severity = "critical"

\* the last run with a database that takes every entry
RunWithDatabase == Rerun(enabledRules, last.faults, {})

\* the log entries of s at the positions where db.insert did not throw
Surviving(s, dbFails) ==
    LET keep == {i \in 1..Len(s) : i \notin dbFails}
        nth(k) == CHOOSE i \in keep : Cardinality({j \in keep : j < i}) = k - 1
    IN  [k \in 1..Cardinality(keep) |-> s[nth(k)]]

\* C14: a db.insert that throws while the verdicts are logged is caught: the
\* run returns the allowed, content, verdicts and flagged it returns when every
\* insert succeeds, and every verdict after the failed one is still inserted
\* (the database holds the entries of all the other verdicts, in order).
C14_PersistenceFailureIsCaught ==
    IsRun
    => /\ last.allowed = RunWithDatabase.allowed
       /\ last.outContent = RunWithDatabase.content
       /\ last.results = RunWithDatabase.results
       /\ last.hasFlagged = RunWithDatabase.hasFlagged
       /\ last.flagged = RunWithDatabase.flagged
       /\ last.persisted = Surviving(RunWithDatabase.persisted, last.dbFails)

\* the inserts of the first and the third of four verdicts threw; the second
\* and the fourth verdict are in the database and the run returned its result
C14_Witness ==
    /\ ReachedRules
    /\ last.dbFails = {1, 3}
    /\ Len(last.results) = 4
    /\ Len(last.persisted) = 2
    /\ last.persisted[1].guardrailType = last.results[2].guardrailType
    /\ last.persisted[2].guardrailType = last.results[4].guardrailType
    /\ ~last.allowed

----------------------------------------------------------------------------
(* Concurrent pipeline calls of one identity: specification SpecConc.  The  *)
(* calls are issued one after another and go on, each from await to await,  *)
(* in any interleaving.                                                      *)

MaxTasks == 3

ConcConfigChoices ==
    { c \in ConfigChoices : c.enabled /\ c.whitelist = <<>> /\ c.blacklist = <<>> }

ConcCalls ==
    { [op |-> op, content |-> c, ctx |-> Context("u1", "free", FALSE)] :
      op \in {"processInput", "processOutput"},
      c \in { <<"hello">>, <<"kill">> } }

InitConc ==
    /\ config \in ConcConfigChoices
    /\ enabledRules \in EnabledChoices
    /\ lastIndex = ZeroLastIndex
    /\ runs = 0
    /\ tasks = <<>>
    /\ IdleLimiter
    /\ IdleClient
    /\ IdleCost
    /\ last = [op |-> "concurrent", rlCalls |-> <<>>]

\* task k has gone on to its next await (or its end): the rule objects hold
\* their new state; a call of the rate limiter made on the way is noted
Stepped(k, calls, task) ==
    /\ tasks' = IF k > Len(tasks) THEN Append(tasks, task) ELSE [tasks EXCEPT ![k] = task]
    /\ userLimits' = task.acc.rs.userLimits
    /\ lastIndex' = task.acc.rs.lastIndex
    /\ last' = IF /\ Len(task.acc.executed) > calls
                  /\ task.acc.executed[Len(task.acc.executed)].rule = RateLimitType
               THEN [last EXCEPT !.rlCalls =
                        Append(@, [task |-> k, phase |-> task.phase,
                                   content |-> task.content, ctx |-> task.ctx])]
               ELSE last

\* guardrailsMiddleware.processInput / processOutput is called
Issue(op, content, ctx) ==
    /\ Len(tasks) < MaxTasks
    /\ Stepped(Len(tasks) + 1, 0,
               Begin(op, content, ctx, config, enabledRules,
                     [userLimits |-> userLimits, lastIndex |-> lastIndex], now))
    /\ UNCHANGED <<config, enabledRules, runs, now, caller, clientVars, costCall>>

\* the promise task k awaits is settled: the call goes on
Resume(k) ==
    /\ tasks[k].state = "awaiting"
    /\ Stepped(k, Len(tasks[k].acc.executed),
               Step(tasks[k], config, enabledRules,
                    [userLimits |-> userLimits, lastIndex |-> lastIndex], now))
    /\ UNCHANGED <<config, enabledRules, runs, now, caller, clientVars, costCall>>

NextConc ==
    \/ \E call \in ConcCalls : Issue(call.op, call.content, call.ctx)
    \/ \E k \in DOMAIN tasks : Resume(k)

SpecConc == InitConc /\ [][NextConc]_vars

----------------------------------------------------------------------------
(* Properties of concurrent calls, checked under SpecConc *)

\* the rate limiter's map after the first n noted calls, made one by one on
\* a new rate limiter
RECURSIVE Replay(_, _)
Replay(calls, n) ==
    IF n = 0
    THEN [k \in Keys |-> NoEntry]
    ELSE IF calls[n].phase = "input"
    THEN RateLimitCheckInput(calls[n].content, calls[n].ctx, Replay(calls, n - 1), now).userLimits
    ELSE RateLimitCheckOutput(calls[n].content, calls[n].ctx, Replay(calls, n - 1)).userLimits

\* C16: whatever the interleaving of the calls of one identity, the counters
\* of the rate limiter are what its checks, made one at a time in the order in
\* which they were made, produce (no update is lost); a call's check is made
\* before the call first awaits, so the checks are made in the order in which
\* the calls were issued.
C16_RateLimitUpdatesAreAtomicAndOrdered ==
    last.op = "concurrent"
    => /\ userLimits = Replay(last.rlCalls, Len(last.rlCalls))
       /\ \A a, b \in 1..Len(last.rlCalls) :
             a < b => last.rlCalls[a].task < last.rlCalls[b].task
       /\ \A k \in 1..Len(tasks) :
             \E a \in 1..Len(last.rlCalls) : last.rlCalls[a].task = k

\* three calls in flight at once: the first still awaits its second rule, the
\* third has returned; two requests hold the two slots of the free tier and
\* the third was refused
C16_Witness ==
    /\ last.op = "concurrent"
    /\ Len(tasks) = 3
    /\ \A k \in 1..3 : tasks[k].op = "processInput"
    /\ tasks[1].state = "awaiting"
    /\ tasks[1].i = 2
    /\ tasks[3].state = "returned"
    /\ ~tasks[3].out.allowed
    /\ userLimits["u1"].concurrent = 2
    /\ userLimits["u1"].count = 2

----------------------------------------------------------------------------
(* The rate limiter as a state machine: specification SpecRL.  One identity *)
(* of one tier calls checkInput and checkOutput of the rule while time      *)
(* passes.                                                                  *)

MaxTicks == 2

HalfMinuteMs == MinuteMs \div 2

Tiers == {"free", "pro", "enterprise"}

RLCallers == { Context(u, tier, FALSE) : u \in {"u1", NoUser}, tier \in Tiers }

\* a text whose token estimate is the whole daily budget of the tier
BudgetText(tier) ==
    CASE tier = "free" -> "<a text of 39997 characters>"
      [] tier = "pro" -> "<a text of 399997 characters>"
      [] tier = "enterprise" -> "<a text of 3999997 characters>"

\* the payloads of a caller: the empty text and the budget text, and for the
\* free tier a short text too
RLPayloads(tier) ==
    { <<>>, <<BudgetText(tier)>> } \cup (IF tier = "free" THEN { <<"hello">> } ELSE {})

InitRL ==
    /\ IdlePipeline
    /\ userLimits = [k \in Keys |-> NoEntry]
    /\ now = 0
    /\ caller \in RLCallers
    /\ IdleClient
    /\ IdleCost
    /\ last = [op |-> "none"]

\* a call of RateLimitGuardrail.checkInput(content, caller)
RLCheckInput(content) ==
    /\ LET r == RateLimitCheckInput(content, caller, userLimits, now)
       IN  /\ userLimits' = r.userLimits
           /\ last' = [op |-> "checkInput", content |-> content,
                       before |-> userLimits[UserKey(caller)], result |-> r.result]
    /\ UNCHANGED <<now, caller, pipelineVars, clientVars, costCall>>

\* a call of RateLimitGuardrail.checkOutput(content, caller)
RLCheckOutput(content) ==
    /\ LET r == RateLimitCheckOutput(content, caller, userLimits)
       IN  /\ userLimits' = r.userLimits
           /\ last' = [op |-> "checkOutput", content |-> content,
                       before |-> userLimits[UserKey(caller)], result |-> r.result]
    /\ UNCHANGED <<now, caller, pipelineVars, clientVars, costCall>>

\* half a minute passes
AdvanceTime ==
    /\ now < MaxTicks * HalfMinuteMs
    /\ now' = now + HalfMinuteMs
    /\ last' = [op |-> "advanceTime"]
    /\ UNCHANGED <<userLimits, caller, pipelineVars, clientVars, costCall>>

NextRL ==
    \/ \E content \in RLPayloads(caller.userTier) : RLCheckInput(content)
    \/ RLCheckOutput(<<"hello">>)
    \/ AdvanceTime

SpecRL == InitRL /\ [][NextRL]_vars

----------------------------------------------------------------------------
(* Properties of the rate limiter, checked under SpecRL *)

\* the limits of the caller's tier
Lim == limits[caller.userTier]

PerMinuteReason ==
    <<"Rate limit exceeded. Limit: ", Lim.requestsPerMinute, " requests per minute">>

ConcurrentReason == <<"Too many concurrent requests. Limit: ", Lim.concurrentRequests>>

TokenReason == <<"Daily token limit exceeded. Limit: ", Lim.tokensPerDay, " tokens per day">>

\* the last call was a checkInput for an identity that had an entry
LastCheckInput == last.op = "checkInput" /\ last.before # NoEntry

\* the call came less than a minute after the start of the entry's window
InWindow == now - last.before.lastReset < MinuteMs

\* C4 as stated: when N requests were accepted in the window, N the per-minute
\* limit of the tier, a further call in that minute is blocked with the reason
\* that names the per-minute limit, and a call made once the window has
\* elapsed is accepted.
C4_Original ==
    (LastCheckInput /\ last.before.count = Lim.requestsPerMinute)
    => /\ InWindow => /\ last.result.action = "block"
                      /\ last.result.reason = PerMinuteReason
       /\ ~InWindow => last.result.action = "allow"

\* C4 amended: when N requests were accepted in the window, a further call in
\* that minute is blocked and changes no counter; its reason names the
\* per-minute limit unless all concurrency slots of the identity are taken,
\* and then it names the concurrency limit.  A call made once the window has
\* elapsed starts a new window and is never blocked for the per-minute limit: it
\* is accepted as the first request of the window, or blocked for the
\* concurrency or the daily token limit.
C4_PerMinuteLimit ==
    (LastCheckInput /\ last.before.count = Lim.requestsPerMinute)
    => /\ InWindow
          => /\ last.result.action = "block"
             /\ last.result.reason =
                    IF last.before.concurrent >= Lim.concurrentRequests
                    THEN ConcurrentReason ELSE PerMinuteReason
             /\ userLimits[UserKey(caller)] = last.before
       /\ ~InWindow
          => /\ userLimits[UserKey(caller)].lastReset = now
             /\ last.result.action = "block"
                => /\ last.result.reason \in {ConcurrentReason, TokenReason}
                   /\ userLimits[UserKey(caller)].count = 0
             /\ last.result.action = "allow"
                => userLimits[UserKey(caller)].count = 1
             /\ (last.before.concurrent < Lim.concurrentRequests /\ last.content = <<>>)
                => last.result.action = "allow"

\* a pro identity used its 60 requests, and its request a minute after the
\* start of the window was accepted
C4_Witness ==
    /\ LastCheckInput
    /\ caller.userTier = "pro"
    /\ last.before.count = Lim.requestsPerMinute
    /\ ~InWindow
    /\ last.result.action = "allow"
    /\ userLimits[UserKey(caller)].count = 1

\* a call of checkInput was made
AnyCheckInput == last.op = "checkInput"

\* the entry of the caller after the window-reset step of the last checkInput
AfterReset ==
    ResetCounters(IF last.before = NoEntry
                  THEN [count |-> 0, tokens |-> 0, lastReset |-> now, concurrent |-> 0]
                  ELSE last.before,
                  now)

\* ceil(length(content) / 4) for the content of the last call
Estimate == (StrLength(last.content) + 3) \div 4

ConcurrencyFull == AfterReset.concurrent >= Lim.concurrentRequests
MinuteFull == AfterReset.count >= Lim.requestsPerMinute
BudgetExceeded == AfterReset.tokens + Estimate > Lim.tokensPerDay

\* C27: checkInput tests concurrentCount >= the concurrent limit, then
\* requestCount >= the per-minute limit, then tokenCount + ceil(length / 4) >
\* the per-day token limit, on the counters as they are after the window
\* reset; it blocks with the reason of the first condition that holds and
\* accepts exactly when none holds.
C27_RejectionOrder ==
    AnyCheckInput =>
        /\ last.result.action = "allow"
           <=> ~ConcurrencyFull /\ ~MinuteFull /\ ~BudgetExceeded
        /\ last.result.action \in {"allow", "block"}
        /\ last.result.action = "block" =>
              last.result.reason =
                  IF ConcurrencyFull THEN ConcurrentReason
                  ELSE IF MinuteFull THEN PerMinuteReason
                  ELSE TokenReason

\* all three conditions hold for a free identity, and the reason names the
\* concurrency limit
C27_Witness ==
    /\ AnyCheckInput
    /\ ConcurrencyFull
    /\ MinuteFull
    /\ BudgetExceeded
    /\ last.result.action = "block"
    /\ last.result.reason = ConcurrentReason

\* C28: checkInput changes the counters on acceptance only: an accepted call
\* adds 1 to requestCount, ceil(length / 4) to tokenCount and 1 to
\* concurrentCount; a blocked call leaves the entry as it is after the
\* window-reset step.
C28_CountersChangeOnAcceptance ==
    AnyCheckInput =>
        /\ last.result.action = "allow"
           => userLimits[UserKey(caller)] =
                  [count |-> AfterReset.count + 1,
                   tokens |-> AfterReset.tokens + Estimate,
                   lastReset |-> AfterReset.lastReset,
                   concurrent |-> AfterReset.concurrent + 1]
        /\ last.result.action = "block"
           => userLimits[UserKey(caller)] = AfterReset
        /\ \A k \in Keys \ {UserKey(caller)} : userLimits[k] = NoEntry

\* a call of a free identity blocked for the per-minute limit left the ten
\* requests, the tokens and the one slot in use as they were
C28_Witness ==
    /\ AnyCheckInput
    /\ last.result.action = "block"
    /\ last.result.reason = PerMinuteReason
    /\ last.content = <<"hello">>
    /\ userLimits[UserKey(caller)].count = 10
    /\ userLimits[UserKey(caller)].concurrent = 1
    /\ userLimits[UserKey(caller)].tokens > 0
    /\ userLimits[UserKey(caller)] = last.before

----------------------------------------------------------------------------
(* AIClient.generateText as a state machine: specification SpecGen.  One    *)
(* call is followed from adapter call to adapter call; the backend of a     *)
(* model always answers ("ok"), always fails ("fail"), does either          *)
(* ("flaky"), or rejects every call with an error that no retry can cure    *)
(* ("denied": the key of the provider is not valid).                        *)

FallbackChoices ==
    { <<>>,
      <<"gpt-4o-mini", "claude-3-5-haiku-20241022">>,
      \* the list of the global aiClient
      <<"gpt-4o-mini", "claude-3-5-haiku-20241022", "llama-3.1-8b-instant">> }

OptionChoices ==
    { [maxRetries |-> r, retryDelay |-> 1000, fallbackModels |-> f, enableFallback |-> e] :
      r \in {0, 1, 3}, f \in FallbackChoices, e \in BOOLEAN }

InitializedChoices ==
    { registered, SelectSeq(registered, LAMBDA p : p # "openai"), <<"openai">>, <<>> }

\* the models whose backend may fail
VariedModels == {"gpt-4o", "gpt-4o-mini", "claude-3-5-haiku-20241022"}

\* the model whose backend may reject the credentials: the adapter passes
\* the rejection on as it is
DeniedModels == {"claude-3-5-haiku-20241022"}

GenerateModes ==
    { [m \in ModelIds |-> IF m \in VariedModels THEN f[m] ELSE "ok"] :
      f \in { h \in [VariedModels -> {"ok", "fail", "flaky", "denied"}] :
              \A m \in VariedModels : h[m] = "denied" => m \in DeniedModels } }

RequestModels == ModelIds \cup {"unknown-model"}

UsageChoices ==
    { [inputTokens |-> 1000, outputTokens |-> 1000], [inputTokens |-> 1200, outputTokens |-> 300] }

InitGen ==
    /\ IdlePipeline
    /\ IdleLimiter
    /\ options \in OptionChoices
    /\ initialized \in InitializedChoices
    /\ adapter \in { [HealthyAdapter EXCEPT !.generate = g] : g \in GenerateModes }
    /\ gen = Idle
    /\ stream = Idle
    /\ probe = Idle
    /\ IdleCost
    /\ last = [op |-> "none"]

\* a call of aiClient.generateText({modelId, ...}), up to its first adapter call
GenerateText(modelId) ==
    /\ gen = Idle
    /\ gen' = GenStart(modelId, options, initialized)
    /\ UNCHANGED <<options, initialized, adapter, stream, probe, pipelineVars, limiterVars,
                   costCall, last>>

\* provider.generateText resolves
AdapterSucceeds(usage) ==
    /\ gen.phase = "calling"
    /\ adapter.generate[gen.modelsToTry[gen.idx]] \in {"ok", "flaky"}
    /\ gen' = GenReturn(gen, usage)
    /\ UNCHANGED <<options, initialized, adapter, stream, probe, pipelineVars, limiterVars,
                   costCall, last>>

\* provider.generateText rejects
AdapterFails ==
    /\ gen.phase = "calling"
    /\ adapter.generate[gen.modelsToTry[gen.idx]] \in {"fail", "flaky", "denied"}
    /\ gen' = GenFail(gen, options, initialized,
                      adapter.generate[gen.modelsToTry[gen.idx]] # "denied")
    /\ UNCHANGED <<options, initialized, adapter, stream, probe, pipelineVars, limiterVars,
                   costCall, last>>

\* the timer of executeWithRetry fires: the next attempt begins
RetryTimerFires ==
    /\ gen.phase = "sleeping"
    /\ gen' = [gen EXCEPT !.phase = "calling", !.attempt = @ + 1]
    /\ UNCHANGED <<options, initialized, adapter, stream, probe, pipelineVars, limiterVars,
                   costCall, last>>

NextGen ==
    \/ \E modelId \in RequestModels : GenerateText(modelId)
    \/ \E usage \in UsageChoices : AdapterSucceeds(usage)
    \/ AdapterFails
    \/ RetryTimerFires

SpecGen == InitGen /\ [][NextGen]_vars

----------------------------------------------------------------------------
(* Properties of generateText, checked under SpecGen *)

GenOver == gen.phase \in {"returned", "thrown"}

\* number of adapter calls made for the model, and of those that failed
CallsTo(m) == Cardinality({i \in 1..Len(gen.calls) : gen.calls[i].model = m})
FailedCallsTo(m) ==
    Cardinality({i \in 1..Len(gen.calls) : gen.calls[i].model = m /\ ~gen.calls[i].ok})

\* every attempt allowed for the model was made and failed
Exhausted(m) == FailedCallsTo(m) = options.maxRetries + 1

\* the model is in the catalog and its provider has credentials
Usable(m) ==
    \E i \in 1..Len(modelConfigs) :
        modelConfigs[i].id = m /\ modelConfigs[i].provider \in Range(initialized)

\* the preferred model and the first two explicit fallbacks are three usable
\* models; the backends of the first two always fail, that of the third answers
C5_Setup ==
    /\ gen # Idle
    /\ options.enableFallback
    /\ Len(options.fallbackModels) >= 2
    /\ LET pref == gen.request.modelId
           fb1  == options.fallbackModels[1]
           fb2  == options.fallbackModels[2]
       IN  /\ Cardinality({pref, fb1, fb2}) = 3
           /\ Usable(pref) /\ Usable(fb1) /\ Usable(fb2)
           /\ adapter.generate[pref] = "fail"
           /\ adapter.generate[fb1] = "fail"
           /\ adapter.generate[fb2] = "ok"

\* C5 as stated: with a preferred model and a first fallback that always fail
\* and a second fallback that answers, generateText returns the response of the
\* second fallback, with model set to its id, after exactly maxRetries+1 calls
\* of the preferred model and maxRetries+1 calls of the first fallback.
C5_Original ==
    (C5_Setup /\ GenOver)
    => /\ gen.phase = "returned"
       /\ gen.response.model = options.fallbackModels[2]
       /\ CallsTo(gen.request.modelId) = options.maxRetries + 1
       /\ CallsTo(options.fallbackModels[1]) = options.maxRetries + 1

\* the first configured candidate after position i of modelsToTry (0 when none)
NextConfigured(i) ==
    LET later == {j \in (i + 1)..Len(gen.modelsToTry) : gen.modelsToTry[j] \in ModelIds}
    IN  IF later = {} THEN 0 ELSE Min(later)

\* C6: when the preferred model has failed maxRetries+1 times and fallback is
\* enabled, generateText goes on to the next candidate; when a fallback has
\* failed maxRetries+1 times the call ends there: no further candidate is
\* called and the error of that fallback is raised.
C6_FallbackFailureAborts ==
    gen # Idle
    => LET pref == gen.request.modelId
           next == NextConfigured(1)
       IN  /\ (Exhausted(pref) /\ options.enableFallback /\ next # 0)
              => /\ gen.idx >= next
                 /\ Usable(gen.modelsToTry[next])
                    => \/ /\ gen.phase = "calling"
                          /\ gen.idx = next
                          /\ Len(gen.calls) = options.maxRetries + 1
                       \/ /\ Len(gen.calls) > options.maxRetries + 1
                          /\ gen.calls[options.maxRetries + 2].model = gen.modelsToTry[next]
           /\ \A m \in Range(gen.modelsToTry) \ {pref} :
                 Exhausted(m)
                 => /\ gen.phase = "thrown"
                    /\ gen.error = AdapterError(m)
                    /\ gen.calls[Len(gen.calls)].model = m
                    /\ gen.modelsToTry[gen.idx] = m

\* the preferred model and then the first fallback failed four times each; the
\* call ended with the error of the fallback although a usable candidate whose
\* backend answers was left
C6_Witness ==
    /\ gen # Idle
    /\ gen.phase = "thrown"
    /\ options.maxRetries = 3
    /\ gen.idx = 2
    /\ Exhausted(gen.request.modelId)
    /\ Exhausted(gen.modelsToTry[2])
    /\ Len(gen.calls) = 8
    /\ Len(gen.modelsToTry) >= 3
    /\ Usable(gen.modelsToTry[3])
    /\ adapter.generate[gen.modelsToTry[3]] = "ok"

\* the elements of s, each at its first occurrence
FirstOccurrences(s) ==
    LET first == {i \in 1..Len(s) : \A j \in 1..(i - 1) : s[j] # s[i]}
        nth(k) == CHOOSE i \in first : Cardinality({j \in first : j < i}) = k - 1
    IN  [k \in 1..Cardinality(first) |-> s[nth(k)]]

\* the sequences of at most two of the given model ids
UpToTwo(S) == {<<>>} \cup {<<a>> : a \in S} \cup {<<a, b>> : a, b \in S}

PriceOf(m) == getModelById(m).pricing.inputTokens

\* ids lists cheapest first, without repetition, as many of the candidates as
\* there are, at most two, and no candidate left out is cheaper than one listed
CheapestTwo(ids, candidates) ==
    /\ Range(ids) \subseteq candidates
    /\ Len(ids) = Cardinality(Range(ids))
    /\ Len(ids) = (IF Cardinality(candidates) < 2 THEN Cardinality(candidates) ELSE 2)
    /\ \A i, j \in 1..Len(ids) : i < j => PriceOf(ids[i]) <= PriceOf(ids[j])
    /\ \A m \in candidates \ Range(ids) : \A i \in 1..Len(ids) : PriceOf(ids[i]) <= PriceOf(m)

CheapestTwoOf(candidates) == {ids \in UpToTwo(candidates) : CheapestTwo(ids, candidates)}

\* the models of the provider of the preferred model, without that model
\* and without the premium tier
SameProvider(pref) ==
    IF pref \notin ModelIds THEN {}
    ELSE {m \in ModelIds \ {pref} :
            /\ getModelById(m).provider = getModelById(pref).provider
            /\ getModelById(m).pricing.tier # "premium"}

\* the models of other providers with at least half the context window
CrossProvider(pref) ==
    IF pref \notin ModelIds THEN {}
    ELSE {m \in ModelIds :
            /\ getModelById(m).provider # getModelById(pref).provider
            /\ 2 * getModelById(m).capabilities.contextWindow
                  >= getModelById(pref).capabilities.contextWindow}

\* C17: the candidates of a call are, with repetitions removed (first
\* occurrence kept): the preferred model; then, when fallback is enabled, the
\* explicit fallback list, then at most two models of the same provider (not
\* the preferred one, not premium) by ascending input price, then at most two
\* models of other providers with at least half the context window of the
\* preferred model by ascending input price.  With fallback disabled the
\* list is the preferred model alone.
C17_CandidateOrder ==
    gen # Idle
    => LET pref == gen.request.modelId
       IN  IF ~options.enableFallback
           THEN gen.modelsToTry = <<pref>>
           ELSE \E same \in CheapestTwoOf(SameProvider(pref)) :
                \E cross \in CheapestTwoOf(CrossProvider(pref)) :
                    gen.modelsToTry =
                        FirstOccurrences(<<pref>> \o options.fallbackModels \o same \o cross)

\* gpt-4o with the explicit list gpt-4o-mini, claude-3-5-haiku-20241022: the
\* automatic fallbacks gpt-4o-mini and claude-3-5-haiku-20241022 are
\* repetitions, llama-3.1-sonar-small-128k-online is added
C17_Witness ==
    /\ gen # Idle
    /\ options.enableFallback
    /\ gen.request.modelId = "gpt-4o"
    /\ options.fallbackModels = <<"gpt-4o-mini", "claude-3-5-haiku-20241022">>
    /\ gen.modelsToTry = <<"gpt-4o", "gpt-4o-mini", "claude-3-5-haiku-20241022",
                           "llama-3.1-sonar-small-128k-online">>

\* the adapter calls made for candidate m, the waits that followed them and
\* the errors executeWithRetry raised for it, each in order of time
CallsOf(m) == SelectSeq(gen.calls, LAMBDA c : c.model = m)
WaitsOf(m) == SelectSeq(gen.delays, LAMBDA d : d.model = m)
RaisedFor(m) == SelectSeq(gen.raised, LAMBDA e : e.model = m)

\* the attempts of candidate m are numbered 0, 1, ... and are at most
\* maxRetries + 1; a successful attempt is the last adapter call of the whole
\* generateText call
AttemptsOf(m) ==
    /\ Len(CallsOf(m)) <= options.maxRetries + 1
    /\ \A k \in 1..Len(CallsOf(m)) : CallsOf(m)[k].attempt = k - 1
    /\ \A i \in 1..Len(gen.calls) :
          gen.calls[i].ok => i = Len(gen.calls) /\ gen.phase = "returned"

\* one wait of retryDelay * 2^k follows the failed attempt k of candidate m,
\* for every k below maxRetries, and no other wait is made for m
BackoffOf(m) ==
    /\ Len(WaitsOf(m)) =
          Cardinality({k \in 1..Len(CallsOf(m)) :
                         ~CallsOf(m)[k].ok /\ k - 1 < options.maxRetries})
    /\ \A j \in 1..Len(WaitsOf(m)) :
          /\ WaitsOf(m)[j].after = j - 1
          /\ WaitsOf(m)[j].after < options.maxRetries
          /\ WaitsOf(m)[j].ms = options.retryDelay * 2^(j - 1)
          /\ ~CallsOf(m)[j].ok

\* executeWithRetry raises for candidate m exactly when attempt maxRetries
\* failed, and what it raises is the error of that attempt
ExhaustedOf(m) ==
    /\ Len(RaisedFor(m)) =
          (IF /\ Len(CallsOf(m)) = options.maxRetries + 1
              /\ ~CallsOf(m)[options.maxRetries + 1].ok
           THEN 1 ELSE 0)
    /\ \A j \in 1..Len(RaisedFor(m)) :
          /\ RaisedFor(m)[j].attempt = options.maxRetries
          /\ RaisedFor(m)[j].error = AdapterError(m)

\* C18: for each candidate, generateText calls the adapter at most
\* maxRetries + 1 times and stops at the first success; it waits
\* retryDelay * 2^k between the failed attempt k and attempt k + 1 and does
\* not wait after the final failed attempt; when every attempt fails, the
\* error of the last attempt is raised for the candidate.
C18_RetrySchedule ==
    gen # Idle =>
        /\ \A m \in ModelIds : AttemptsOf(m) /\ BackoffOf(m) /\ ExhaustedOf(m)
        /\ gen.phase = "sleeping" =>
              /\ ~gen.calls[Len(gen.calls)].ok
              /\ gen.delays[Len(gen.delays)].model = gen.calls[Len(gen.calls)].model
              /\ gen.delays[Len(gen.delays)].after = gen.calls[Len(gen.calls)].attempt

\* the preferred model failed four times, with waits of one, two and four
\* base delays in between, and the call went on to a fallback that answered
\* at its second attempt
C18_Witness ==
    /\ gen # Idle
    /\ gen.phase = "returned"
    /\ options.maxRetries = 3
    /\ gen.request.modelId = "gpt-4o"
    /\ Len(CallsOf("gpt-4o")) = 4
    /\ [j \in 1..3 |-> WaitsOf("gpt-4o")[j].ms] = <<1000, 2000, 4000>>
    /\ Len(RaisedFor("gpt-4o")) = 1
    /\ Len(gen.calls) = 6
    /\ gen.calls[6].attempt = 1

\* the adapter call that produced the response
AnsweredBy == gen.calls[Len(gen.calls)]

\* C19: when generateText returns, response.model is the id of the candidate
\* whose adapter call produced the response, which is not the preferred id
\* when a fallback answered, and response.cost is that candidate's price of
\* the usage the adapter reported.
C19_ResponseNamesTheCandidate ==
    (gen # Idle /\ gen.phase = "returned") =>
        /\ AnsweredBy.ok
        /\ gen.response.model = AnsweredBy.model
        /\ gen.response.content = <<"reply of ", AnsweredBy.model>>
        /\ gen.response.usage \in UsageChoices
        /\ gen.response.cost =
              gen.response.usage.inputTokens * getModelById(AnsweredBy.model).pricing.inputTokens
              + gen.response.usage.outputTokens * getModelById(AnsweredBy.model).pricing.outputTokens
        /\ gen.response.cost = calculateCost(AnsweredBy.model, gen.response.usage.inputTokens,
                                             gen.response.usage.outputTokens)

\* the preferred gpt-4o failed and the fallback gpt-4o-mini answered: the
\* response carries the fallback's id and the fallback's (lower) cost
C19_Witness ==
    /\ gen # Idle
    /\ gen.phase = "returned"
    /\ gen.request.modelId = "gpt-4o"
    /\ AnsweredBy.model = "gpt-4o-mini"
    /\ gen.response.model = "gpt-4o-mini"
    /\ gen.response.usage = [inputTokens |-> 1200, outputTokens |-> 300]
    /\ gen.response.cost # calculateCost("gpt-4o", 1200, 300)
    /\ gen.response.cost > 0

\* C20: when an adapter call fails with a non-transient error, generateText
\* does not spend the remaining retries of that candidate: the failed attempt
\* is the only call made for the candidate, no backoff wait follows it, and
\* the call goes on to the fallback at once.
C20_Original ==
    gen # Idle =>
        \A i \in 1..Len(gen.calls) :
            (~gen.calls[i].ok /\ ~gen.calls[i].transient) =>
                /\ Len(CallsOf(gen.calls[i].model)) = 1
                /\ Len(WaitsOf(gen.calls[i].model)) = 0
                /\ gen.phase # "sleeping"

\* the provider of the preferred model is registered but not initialized
PreferredNotInitialized ==
    /\ gen # Idle
    /\ getModelById(gen.request.modelId) # NoConfig
    /\ getModelById(gen.request.modelId).enabled
    /\ getModelById(gen.request.modelId).provider \in providers \ Range(initialized)

\* C21: when the provider of the preferred candidate is registered but not
\* initialized, generateText raises the provider-not-initialized fault to the
\* caller at once and attempts no fallback candidate.
C21_Original ==
    PreferredNotInitialized =>
        /\ gen.phase = "thrown"
        /\ gen.calls = <<>>
        /\ gen.error = <<"Provider ", getModelById(gen.request.modelId).provider,
                         " not initialized">>

----------------------------------------------------------------------------
(* AIClient.streamText as a state machine: specification SpecStream.  The   *)
(* stream of a backend is a number of text chunks and then a done chunk or  *)
(* an error chunk.                                                          *)

MaxChunks == 2

StreamOptionChoices ==
    { [DefaultOptions EXCEPT !.fallbackModels = f, !.enableFallback = e] :
      f \in { <<>>, <<"gpt-4o-mini", "claude-3-5-haiku-20241022">> }, e \in BOOLEAN }

\* the models whose stream varies
VariedStreams == {"claude-3-5-sonnet-20241022", "gpt-4o-mini"}

StreamScripts == [texts : 0..MaxChunks, ending : {"done", "error"}]

StreamModes ==
    { [m \in ModelIds |-> IF m \in VariedStreams THEN f[m] ELSE HealthyAdapter.stream[m]] :
      f \in [VariedStreams -> StreamScripts] }

StreamRequestModels == {"claude-3-5-sonnet-20241022", "gpt-4o", "unknown-model"}

InitStream ==
    /\ IdlePipeline
    /\ IdleLimiter
    /\ options \in StreamOptionChoices
    /\ initialized \in InitializedChoices
    /\ adapter \in { [HealthyAdapter EXCEPT !.stream = st] : st \in StreamModes }
    /\ gen = Idle
    /\ stream = Idle
    /\ probe = Idle
    /\ IdleCost
    /\ last = [op |-> "none"]

\* a call of aiClient.streamText({modelId, ...}) is iterated: the loop runs up
\* to the first stream it opens, or to the error chunk after the loop
StreamText(modelId) ==
    /\ stream = Idle
    /\ stream' = StreamStart(modelId, options, initialized)
    /\ UNCHANGED <<options, initialized, adapter, gen, probe, pipelineVars, limiterVars,
                   costCall, last>>

\* the adapter yields its next chunk and the client yields it to the caller
AdapterYields ==
    /\ stream.phase = "streaming"
    /\ LET modelId == stream.modelsToTry[stream.idx]
           script == adapter.stream[modelId]
       IN  /\ stream.pos <= script.texts
           /\ stream' = [stream EXCEPT
                            !.delivered = Append(@, ForwardChunk(modelId,
                                              AdapterChunk(modelId, script, stream.pos))),
                            !.pos = @ + 1]
    /\ UNCHANGED <<options, initialized, adapter, gen, probe, pipelineVars, limiterVars,
                   costCall, last>>

\* the adapter's generator is done after its done or error chunk
AdapterStreamEnds ==
    /\ stream.phase = "streaming"
    /\ stream.pos = adapter.stream[stream.modelsToTry[stream.idx]].texts + 1
    /\ stream' = StreamAfterEnd(stream, options, initialized)
    /\ UNCHANGED <<options, initialized, adapter, gen, probe, pipelineVars, limiterVars,
                   costCall, last>>

NextStream ==
    \/ \E modelId \in StreamRequestModels : StreamText(modelId)
    \/ AdapterYields
    \/ AdapterStreamEnds

SpecStream == InitStream /\ [][NextStream]_vars

----------------------------------------------------------------------------
(* Properties of streamText, checked under SpecStream *)

\* the text chunk number k of the model
TextChunk(m, k) == [type |-> "text", delta |-> <<m, k>>]

StreamsOpened(m) == Cardinality({i \in 1..Len(stream.invoked) : stream.invoked[i] = m})

\* C22: a candidate whose stream fails before it yielded any chunk is
\* attempted maxRetries + 1 times before streamText goes on to the next
\* candidate or gives up, as a candidate of generateText is.
C22_Original ==
    (/\ stream # Idle
     /\ stream.phase = "ended"
     /\ stream.invoked # <<>>
     /\ adapter.stream[stream.invoked[1]] = [texts |-> 0, ending |-> "error"])
    => StreamsOpened(stream.invoked[1]) = options.maxRetries + 1

\* the chunk the caller must get for the chunk number k of the stream of m:
\* the done chunk with the price of its usage for model m, any other chunk
\* as it is
Expected(m, k) ==
    IF AdapterChunk(m, adapter.stream[m], k - 1).type = "done"
    THEN [type |-> "done",
          usage |-> [inputTokens |-> StreamUsage.inputTokens,
                     outputTokens |-> StreamUsage.outputTokens,
                     cost |-> StreamUsage.inputTokens * getModelById(m).pricing.inputTokens
                              + StreamUsage.outputTokens * getModelById(m).pricing.outputTokens]]
    ELSE AdapterChunk(m, adapter.stream[m], k - 1)

----------------------------------------------------------------------------
(* calculateCost as a state machine: specification SpecCost *)

TokenCounts == {0, 1, 500, 1000, 2500}

CostModelIds == ModelIds \cup {"unknown-model"}

InitCost ==
    /\ IdlePipeline
    /\ IdleLimiter
    /\ IdleClient
    /\ costCall \in [phase : {"pending"}, modelId : CostModelIds,
                     inputTokens : TokenCounts, outputTokens : TokenCounts, cost : {0}]
    /\ last = [op |-> "none"]

\* the call calculateCost(modelId, inputTokens, outputTokens) is made
CalculateCost ==
    /\ costCall.phase = "pending"
    /\ costCall' = [costCall EXCEPT
                       !.phase = "done",
                       !.cost = calculateCost(costCall.modelId, costCall.inputTokens,
                                              costCall.outputTokens)]
    /\ UNCHANGED <<pipelineVars, limiterVars, clientVars, last>>

NextCost == CalculateCost

SpecCost == InitCost /\ [][NextCost]_vars

----------------------------------------------------------------------------
(* AIProviderRegistry as a state machine: specification SpecReg.  Providers  *)
(* are initialized in any order, models are looked up, and one call of       *)
(* getHealthyProvider goes from probe to probe while both go on.             *)

\* "mistral" is a name no provider is registered under
InitNames == {"openai", "anthropic", "groq", "mistral"}

LookupIds ==
    {"gpt-4o", "claude-3-5-haiku-20241022", "grok-beta", "unknown-model", "constructor"}

PreferredChoices == {NoProvider, "anthropic", "xai", "groq", "mistral"}

\* the adapters whose generateText needs nothing that initialize builds:
\* GroqProvider sends its request with fetch and the stored key, which is the
\* empty string before initialize, so the answer to its probe is the
\* backend's; the Anthropic, XAI and Perplexity adapters call this.client,
\* which initialize assigns, so their probe fails until then
ClientlessProviders == {"groq"}

\* isHealthy() of an adapter can resolve to true
MayReportHealthy(provider, init) ==
    provider \in Range(init) \/ provider \in ClientlessProviders

InitReg ==
    /\ IdlePipeline
    /\ IdleLimiter
    /\ IdleClient
    /\ IdleCost
    /\ last = [op |-> "none"]

\* await aiRegistry.initializeProvider(providerName, apiKey)
InitializeProvider(providerName, ok) ==
    /\ initialized' = initializeProvider(providerName, initialized, ok).initialized
    /\ last' = [op |-> "initializeProvider", providerName |-> providerName,
                result |-> initializeProvider(providerName, initialized, ok).result]
    /\ UNCHANGED <<options, adapter, gen, stream, probe, pipelineVars, limiterVars, costCall>>

\* aiRegistry.getProviderForModel(modelId)
GetProviderForModel(modelId) ==
    /\ last' = [op |-> "getProviderForModel", modelId |-> modelId,
                result |-> getProviderForModel(modelId, initialized)]
    /\ UNCHANGED <<pipelineVars, limiterVars, clientVars, costCall>>

\* aiRegistry.getHealthyProvider(preferredProvider), up to its first await
GetHealthyProvider(preferredProvider) ==
    /\ probe = Idle
    /\ probe' = ProbeStart(preferredProvider, initialized)
    /\ UNCHANGED <<options, initialized, adapter, gen, stream, pipelineVars, limiterVars,
                   costCall, last>>

\* the isHealthy call that getHealthyProvider awaits resolves
ProbeAnswers(healthy) ==
    /\ probe # Idle
    /\ probe.phase = "probing"
    /\ healthy => MayReportHealthy(probe.toCheck[probe.i], initialized)
    /\ probe' = ProbeAnswer(probe, healthy)
    /\ UNCHANGED <<options, initialized, adapter, gen, stream, pipelineVars, limiterVars,
                   costCall, last>>

NextReg ==
    \/ \E providerName \in InitNames, ok \in BOOLEAN : InitializeProvider(providerName, ok)
    \/ \E modelId \in LookupIds : GetProviderForModel(modelId)
    \/ \E preferredProvider \in PreferredChoices : GetHealthyProvider(preferredProvider)
    \/ \E healthy \in BOOLEAN : ProbeAnswers(healthy)

SpecReg == InitReg /\ [][NextReg]_vars

----------------------------------------------------------------------------
(* Properties of the registry, checked under SpecReg *)

\* a call of getProviderForModel was made
Looked == last.op = "getProviderForModel"

\* C24: getProviderForModel(modelId) returns the adapter registered for the
\* provider of the model when that provider is initialized; it fails with the
\* model-not-found error when the id is not in the catalog and with the
\* provider-not-initialized error when the provider is registered and not
\* initialized; it never returns an adapter that is not initialized.
C24_Original ==
    Looked =>
        /\ last.result.ok => last.result.provider \in Range(initialized)
        /\ last.modelId \notin ModelIds
           => last.result = Failure(<<"Model ", last.modelId, " not found">>)
        /\ \A i \in 1..Len(modelConfigs) :
              modelConfigs[i].id = last.modelId
              => IF modelConfigs[i].provider \in Range(initialized)
                 THEN last.result = [ok |-> TRUE, provider |-> modelConfigs[i].provider]
                 ELSE last.result = Failure(<<"Provider ", modelConfigs[i].provider,
                                              " not initialized">>)

\* the adapters to probe as the claim orders them: the preferred one, then
\* the providers that were initialized when the call was made, in the order
\* of their registration
RegistrationOrder ==
    (IF probe.preferred \in providers THEN <<probe.preferred>> ELSE <<>>)
    \o SelectSeq(registered,
                 LAMBDA p : p \in Range(probe.toCheck) /\ p # probe.preferred)

\* C25: getHealthyProvider(preferred) probes the preferred adapter first and
\* then the initialized adapters in registration order; it returns the first
\* adapter whose probe reports healthy and probes none after it; it fails
\* with the no-healthy-provider error when no probed adapter is healthy.
C25_Original ==
    probe # Idle =>
        /\ Len(probe.probed) <= Len(RegistrationOrder)
        /\ \A k \in 1..Len(probe.probed) :
              /\ probe.probed[k].provider = RegistrationOrder[k]
              /\ probe.probed[k].healthy => k = Len(probe.probed) /\ probe.phase = "returned"
        /\ probe.phase = "returned"
           => /\ probe.probed # <<>>
              /\ probe.probed[Len(probe.probed)].healthy
              /\ probe.provider = probe.probed[Len(probe.probed)].provider
        /\ probe.phase = "thrown"
           => /\ Len(probe.probed) = Len(RegistrationOrder)
              /\ probe.error = <<"No healthy providers available">>

----------------------------------------------------------------------------
(* The rate limiter over more than a day: specification SpecDay.  A free     *)
(* identity calls checkInput and checkOutput while time passes in steps of   *)
(* six hours; last.tokensSince is the time at which the identity's token     *)
(* count was last set to zero (when the entry was made, or by a reset).      *)

MaxQuarters == 5

QuarterDayMs == DayMs \div 4

DayCaller == Context("u1", "free", FALSE)

DayPayloads == { <<>>, <<"hello">>, <<BudgetText("free")>> }

InitDay ==
    /\ IdlePipeline
    /\ userLimits = [k \in Keys |-> NoEntry]
    /\ now = 0
    /\ caller = DayCaller
    /\ IdleClient
    /\ IdleCost
    /\ last = [op |-> "none", tokensSince |-> 0]

\* checkInput sets the token count to zero: it makes the entry, or a day has
\* passed since lastReset
TokensZeroed(entry, t) == entry = NoEntry \/ t - entry.lastReset >= DayMs

\* a call of RateLimitGuardrail.checkInput(content, caller)
DayCheckInput(content) ==
    /\ userLimits' = RateLimitCheckInput(content, caller, userLimits, now).userLimits
    /\ last' = [op |-> "checkInput", content |-> content,
                before |-> userLimits[UserKey(caller)],
                result |-> RateLimitCheckInput(content, caller, userLimits, now).result,
                tokensBefore |-> last.tokensSince,
                tokensSince |-> IF TokensZeroed(userLimits[UserKey(caller)], now)
                                THEN now ELSE last.tokensSince]
    /\ UNCHANGED <<now, caller, pipelineVars, clientVars, costCall>>

\* a call of RateLimitGuardrail.checkOutput(content, caller)
DayCheckOutput(content) ==
    /\ userLimits' = RateLimitCheckOutput(content, caller, userLimits).userLimits
    /\ last' = [op |-> "checkOutput", tokensSince |-> last.tokensSince]
    /\ UNCHANGED <<now, caller, pipelineVars, clientVars, costCall>>

\* six hours pass
QuarterDayPasses ==
    /\ now < MaxQuarters * QuarterDayMs
    /\ now' = now + QuarterDayMs
    /\ last' = [op |-> "advanceTime", tokensSince |-> last.tokensSince]
    /\ UNCHANGED <<userLimits, caller, pipelineVars, clientVars, costCall>>

NextDay ==
    \/ \E content \in DayPayloads : DayCheckInput(content)
    \/ DayCheckOutput(<<"hello">>)
    \/ QuarterDayPasses

SpecDay == InitDay /\ [][NextDay]_vars

----------------------------------------------------------------------------
(* Properties of the rate limiter, checked under SpecDay *)

\* the counters of the caller after the window-reset step of the last
\* checkInput, read from the entry the call left
CountAfterReset ==
    userLimits[UserKey(caller)].count - (IF last.result.action = "allow" THEN 1 ELSE 0)

TokensAfterReset ==
    userLimits[UserKey(caller)].tokens
    - (IF last.result.action = "allow" THEN (StrLength(last.content) + 3) \div 4 ELSE 0)

\* C29: on checkInput, when at least one minute has elapsed since windowStart
\* the requestCount is reset to 0 and windowStart becomes now, and that reset
\* leaves the tokenCount alone; independently, the tokenCount is reset to 0
\* when at least one day has elapsed since it was last reset, so that an
\* identity that keeps issuing requests gets its daily budget back after a
\* day.
C29_Original ==
    (last.op = "checkInput" /\ last.before # NoEntry) =>
        /\ now - last.before.lastReset >= MinuteMs
           => /\ CountAfterReset = 0
              /\ userLimits[UserKey(caller)].lastReset = now
        /\ now - last.before.lastReset < MinuteMs
           => /\ CountAfterReset = last.before.count
              /\ userLimits[UserKey(caller)].lastReset = last.before.lastReset
        /\ TokensAfterReset =
              IF now - last.tokensBefore >= DayMs THEN 0 ELSE last.before.tokens

----------------------------------------------------------------------------
(* The pipeline under every logLevel: specification SpecLog.  The middleware *)
(* is constructed with logLevel none, errors or all; a rule's check or an    *)
(* insert of the persistence collaborator may throw.                         *)

LogLevels == {"none", "errors", "all"}

LogConfigChoices ==
    { [enabled |-> TRUE, strictMode |-> s, logLevel |-> l,
       whitelist |-> <<"hello">>, blacklist |-> <<"spam", "kill">>] :
      s \in BOOLEAN, l \in LogLevels }

LogFaultChoices == { {}, {ContentSafetyType} }

LogDbFailChoices == { {}, {1}, {2} }

InitLog ==
    /\ config \in LogConfigChoices
    /\ enabledRules = AllRules
    /\ lastIndex = ZeroLastIndex
    /\ runs = 0
    /\ tasks = <<>>
    /\ IdleLimiter
    /\ IdleClient
    /\ IdleCost
    /\ last = [op |-> "none"]

NextLog ==
    \/ \E call \in FaultInputCalls, faults \in LogFaultChoices, dbFails \in LogDbFailChoices :
          CallProcessInput(call.content, call.ctx, faults, dbFails)
    \/ \E call \in FaultOutputCalls, faults \in LogFaultChoices, dbFails \in LogDbFailChoices :
          CallProcessOutput(call.content, call.ctx, faults, dbFails)

SpecLog == InitLog /\ [][NextLog]_vars

----------------------------------------------------------------------------
(* Properties of the pipeline, checked under SpecLog *)

\* the positions of the verdicts of the last run that the logLevel selects
Qualifying ==
    { i \in 1..Len(last.results) :
        /\ config.logLevel # "none"
        /\ \/ config.logLevel = "all"
           \/ last.results[i].action # "allow"
           \/ last.results[i].severity \in {"high", "critical"} }

\* the selected verdicts whose insert did not throw; inserts are made in the
\* order of the verdicts
Stored == { i \in Qualifying : Cardinality({j \in Qualifying : j <= i}) \notin last.dbFails }

\* the entry persisted for the verdict at position i
EntryOf(i) == last.persisted[Cardinality({j \in Stored : j <= i})]

PhaseOf == IF last.op = "processInput" THEN "input" ELSE "output"

----------------------------------------------------------------------------
(* The order of the rules in a run, checked under SpecFault *)

\* the built-in rules by ascending priority: 0, 1, 2, 3
ByPriority == <<RateLimitType, ContentSafetyType, PromptInjectionType, CompletenessType>>

\* s is a leading part of t
IsPrefix(s, t) == Len(s) <= Len(t) /\ s = SubSeq(t, 1, Len(s))

\* the rule calls of the last run that left a verdict: those that returned,
\* and in strict mode the one that threw
Contributing == SelectSeq(ExecutedRules, LAMBDA g : g \notin last.faults \/ config.strictMode)

\* the rule types the verdicts of the last run are expected to name, in order
ExpectedTypes ==
    (IF BlacklistHit THEN <<"blacklist">> ELSE <<>>)
    \o [j \in 1..Len(Contributing) |->
          IF Contributing[j] \in last.faults THEN "system_error" ELSE Contributing[j]]

\* C31: in every processInput and processOutput run the enabled rules are
\* called in ascending priority order (rate-limit, content-safety,
\* prompt-injection, completeness), each at most once, and the verdicts are in
\* the order of the calls, behind the blacklist verdict if there is one.
C31_RulesInPriorityOrder ==
    IsRun
    => /\ IsPrefix(ExecutedRules, SelectSeq(ByPriority, LAMBDA g : g \in enabledRules))
       /\ \A j, k \in 1..Len(ExecutedRules) :
             j < k => priority(ExecutedRules[j]) < priority(ExecutedRules[k])
       /\ ReachedRules
          => [i \in 1..Len(last.results) |-> last.results[i].guardrailType] = ExpectedTypes
       /\ ~ReachedRules => ExecutedRules = <<>>

\* a blacklisted payload went through all four rules: five verdicts, the
\* blacklist verdict first
C31_Witness ==
    /\ BlacklistHit
    /\ ReachedRules
    /\ ExecutedRules = ByPriority
    /\ last.faults = {}
    /\ Len(last.results) = 5
    /\ last.results[1].guardrailType = "blacklist"

----------------------------------------------------------------------------
(* The completeness rule alone: specification SpecComp.  checkOutput is      *)
(* called on responses of up to two code blocks, on one rule object.         *)

CompBlocks ==
    {"~~~x = 1~~~", "~~~// TODO: x~~~", "~~~f({~~~", "~~~await f()~~~",
     "~~~// TODO: await f()~~~", "~~~const a = {b: 1}~~~"}

CompPayloads ==
    { <<"hello">> }
    \cup { <<b>> : b \in CompBlocks }
    \cup { <<b1, "and", b2>> : b1 \in CompBlocks, b2 \in CompBlocks }
    \cup { <<b1, b2>> : b1 \in CompBlocks, b2 \in CompBlocks }

InitComp ==
    /\ IdlePipeline
    /\ IdleLimiter
    /\ IdleClient
    /\ IdleCost
    /\ last = [op |-> "none"]

\* a call of CompletenessGuardrail.checkOutput(content, context)
CompCheckOutput(content) ==
    /\ lastIndex' = [lastIndex EXCEPT
                        !.incomplete = CompletenessCheckOutput(content, lastIndex).lastIndex.incomplete,
                        !.syntaxError = CompletenessCheckOutput(content, lastIndex).lastIndex.syntaxError]
    /\ last' = [op |-> "checkOutput", content |-> content,
                result |-> CompletenessCheckOutput(content, lastIndex).result]
    /\ UNCHANGED <<config, enabledRules, runs, tasks, limiterVars, clientVars, costCall>>

\* a call of CompletenessGuardrail.checkInput(content, context)
CompCheckInput(content) ==
    /\ last' = [op |-> "checkInput", content |-> content,
                result |-> CompletenessCheckInput(content)]
    /\ UNCHANGED <<pipelineVars, limiterVars, clientVars, costCall>>

NextComp ==
    \/ \E content \in CompPayloads : CompCheckOutput(content)
    \/ \E content \in {<<"hello">>, <<"write", "code">>} : CompCheckInput(content)

SpecComp == InitComp /\ [][NextComp]_vars

----------------------------------------------------------------------------
(* Properties of the completeness rule, checked under SpecComp *)

\* the findings the last verdict reports
Findings ==
    IF last.result.reason[1] = "Code quality issues: "
    THEN Range(Tail(last.result.reason)) ELSE {}

\* C32: whenever checkOutput recorded at least one finding the verdict is
\* block with severity high or critical, and the severity is critical
\* whenever a finding of a syntax error (unbalanced bracket, unterminated
\* block) was recorded.
C32_Original ==
    (last.op = "checkOutput" /\ Findings # {})
    => /\ last.result.action = "block"
       /\ last.result.severity \in {"high", "critical"}
       /\ "Potential syntax errors detected" \in Findings
          => last.result.severity = "critical"

----------------------------------------------------------------------------
(* Requests through the pipeline: specification SpecFlow.  A request is a    *)
(* processInput run and, if that run allowed the input, the dispatch and a   *)
(* processOutput run on the response.  tasks holds the requests in flight,   *)
(* those between their two runs: [ctx, acquired], acquired telling whether   *)
(* the rate limiter accepted the request in its processInput run.            *)

MaxFlowRuns == 5

FlowConfigChoices ==
    { [enabled |-> TRUE, strictMode |-> s, logLevel |-> "all",
       whitelist |-> <<"hello">>, blacklist |-> <<"spam">>] : s \in BOOLEAN }

FlowInputs == { <<"hello">>, <<"me">>, <<"kill">>, <<"spam">> }

FlowCallers == { Context("u1", "free", FALSE) }

InitFlow ==
    /\ config \in FlowConfigChoices
    /\ enabledRules = AllRules
    /\ lastIndex = ZeroLastIndex
    /\ runs = 0
    /\ tasks = <<>>
    /\ IdleLimiter
    /\ IdleClient
    /\ IdleCost
    /\ last = [op |-> "none"]

\* the rate limiter returned an allow verdict in the run
Acquired(out) ==
    \E i \in 1..Len(out.results) :
        /\ out.results[i].guardrailType = RateLimitType
        /\ out.results[i].action = "allow"

\* a request comes in: processInput(content, ctx); it is in flight if allowed
RequestArrives(content, ctx, out) ==
    /\ runs < MaxFlowRuns
    /\ Returned("processInput", content, ctx, {}, {}, out)
    /\ tasks' = IF out.allowed
                THEN Append(tasks, [ctx |-> ctx, acquired |-> Acquired(out)])
                ELSE tasks
    /\ runs' = runs + 1
    /\ UNCHANGED <<config, enabledRules, now, caller, clientVars, costCall>>

\* the response of the request in flight at position k is there:
\* processOutput(response, ctx) ends the request
ResponseArrives(k, out) ==
    /\ runs < MaxFlowRuns
    /\ Returned("processOutput", <<"hello">>, tasks[k].ctx, {}, {}, out)
    /\ tasks' = SubSeq(tasks, 1, k - 1) \o SubSeq(tasks, k + 1, Len(tasks))
    /\ runs' = runs + 1
    /\ UNCHANGED <<config, enabledRules, now, caller, clientVars, costCall>>

NextFlow ==
    \/ \E content \in FlowInputs, ctx \in FlowCallers :
          RequestArrives(content, ctx,
                         processInput(content, ctx, config, enabledRules,
                                      [userLimits |-> userLimits, lastIndex |-> lastIndex],
                                      now, {}, {}))
    \/ \E k \in 1..Len(tasks) :
          ResponseArrives(k, processOutput(<<"hello">>, tasks[k].ctx, config, enabledRules,
                                           [userLimits |-> userLimits, lastIndex |-> lastIndex],
                                           now, {}, {}))

SpecFlow == InitFlow /\ [][NextFlow]_vars

----------------------------------------------------------------------------
(* Properties of the requests, checked under SpecFlow *)

\* the requests of the identity with key k that are in flight
InFlight(k) == { i \in 1..Len(tasks) : UserKey(tasks[i].ctx) = k }

\* those of them that the rate limiter accepted
InFlightAccepted(k) == { i \in InFlight(k) : tasks[i].acquired }

\* C33: with processOutput called only for requests whose input was allowed,
\* no concurrency slot stays taken by a request that is over: the concurrent
\* count of an identity never exceeds the number of its requests in flight.
C33_Original ==
    \A k \in Keys :
        userLimits[k] # NoEntry => userLimits[k].concurrent <= Cardinality(InFlight(k))

\* C34: a processOutput run releases only a slot its own request took, so the
\* number of requests of an identity that the rate limiter accepted and that
\* are in flight never exceeds the concurrent limit of its tier.
C34_Original ==
    \A k \in Keys :
        \A i \in InFlightAccepted(k) :
            Cardinality(InFlightAccepted(k)) <= limits[tasks[i].ctx.userTier].concurrentRequests

----------------------------------------------------------------------------
(* The bounds of the counters, checked under SpecRL: the caller, and so the  *)
(* tier of its identity, is the same in every call of a behaviour.           *)

CallerEntry == userLimits[UserKey(caller)]

\* C35: after any sequence of checkInput and checkOutput calls of an identity
\* with one tier, its entry has 0 <= concurrent <= the concurrent limit,
\* 0 <= count <= the per-minute limit and 0 <= tokens <= the daily token
\* limit of the tier.
C35_CountersWithinLimits ==
    CallerEntry # NoEntry
    => /\ 0 <= CallerEntry.concurrent
       /\ CallerEntry.concurrent <= limits[caller.userTier].concurrentRequests
       /\ 0 <= CallerEntry.count
       /\ CallerEntry.count <= limits[caller.userTier].requestsPerMinute
       /\ 0 <= CallerEntry.tokens
       /\ CallerEntry.tokens <= limits[caller.userTier].tokensPerDay

\* the three counters of a free identity stand at their limits
C35_Witness ==
    /\ CallerEntry # NoEntry
    /\ caller.userTier = "free"
    /\ CallerEntry.concurrent = limits["free"].concurrentRequests
    /\ CallerEntry.count = limits["free"].requestsPerMinute
    /\ CallerEntry.tokens = limits["free"].tokensPerDay

----------------------------------------------------------------------------
(* The rate limiter called by several identities: specification SpecKeys.    *)
(* Every call names its caller: one of two named identities or a caller      *)
(* without userId, of the free or the pro tier.                              *)

MaxKeyCalls == 4

KeyCallers ==
    { Context("u1", "free", FALSE), Context("u2", "pro", FALSE),
      Context(NoUser, "free", FALSE), Context(NoUser, "pro", FALSE) }

KeyPayloads == { <<"hello">>, <<BudgetText("free")>> }

InitKeys ==
    /\ IdlePipeline
    /\ IdleLimiter
    /\ IdleClient
    /\ IdleCost
    /\ last = [op |-> "none"]

\* a call of RateLimitGuardrail.checkInput(content, ctx)
KeyCheckInput(content, ctx) ==
    /\ runs < MaxKeyCalls
    /\ runs' = runs + 1
    /\ userLimits' = RateLimitCheckInput(content, ctx, userLimits, now).userLimits
    /\ last' = [op |-> "checkInput", content |-> content, ctx |-> ctx,
                before |-> userLimits,
                result |-> RateLimitCheckInput(content, ctx, userLimits, now).result]
    /\ UNCHANGED <<config, enabledRules, lastIndex, tasks, now, caller, clientVars, costCall>>

\* a call of RateLimitGuardrail.checkOutput(content, ctx)
KeyCheckOutput(content, ctx) ==
    /\ runs < MaxKeyCalls
    /\ runs' = runs + 1
    /\ userLimits' = RateLimitCheckOutput(content, ctx, userLimits).userLimits
    /\ last' = [op |-> "checkOutput", content |-> content, ctx |-> ctx,
                before |-> userLimits,
                result |-> RateLimitCheckOutput(content, ctx, userLimits).result]
    /\ UNCHANGED <<config, enabledRules, lastIndex, tasks, now, caller, clientVars, costCall>>

NextKeys ==
    \/ \E content \in KeyPayloads, ctx \in KeyCallers : KeyCheckInput(content, ctx)
    \/ \E ctx \in KeyCallers : KeyCheckOutput(<<"hello">>, ctx)

SpecKeys == InitKeys /\ [][NextKeys]_vars

----------------------------------------------------------------------------
(* Properties of the rate limiter, checked under SpecKeys *)

\* the entry the last call was for: that of its userId, or the one named
\* anonymous when it has none
KeyOfLast == IF last.ctx.userId = NoUser THEN "anonymous" ELSE last.ctx.userId

\* 1 if the last call was accepted, else 0
Taken == IF last.result.action = "allow" THEN 1 ELSE 0

\* C36: a checkInput or checkOutput call touches only the entry of its own
\* identity, whatever the tier; the calls without userId share the entry
\* named anonymous; the first checkInput of an identity makes its entry, with
\* counters zero and lastReset now before the call counts itself, and
\* checkOutput makes no entry.
C36_KeyedByIdentity ==
    last.op \in {"checkInput", "checkOutput"}
    => /\ \A k \in Keys \ {KeyOfLast} : userLimits[k] = last.before[k]
       /\ (last.op = "checkInput" /\ last.before[KeyOfLast] = NoEntry)
          => userLimits[KeyOfLast] =
                [count |-> Taken,
                 tokens |-> Taken * ((StrLength(last.content) + 3) \div 4),
                 lastReset |-> now, concurrent |-> Taken]
       /\ (last.op = "checkInput" /\ last.before[KeyOfLast] # NoEntry)
          => /\ userLimits[KeyOfLast].count = last.before[KeyOfLast].count + Taken
             /\ userLimits[KeyOfLast].concurrent = last.before[KeyOfLast].concurrent + Taken
       /\ (last.op = "checkOutput" /\ last.before[KeyOfLast] = NoEntry)
          => userLimits[KeyOfLast] = NoEntry

\* a caller without userId of the pro tier was accepted on the anonymous
\* entry that callers of the free tier had filled to their limit, while u1
\* has an entry of its own
C36_Witness ==
    /\ last.op = "checkInput"
    /\ last.ctx = Context(NoUser, "pro", FALSE)
    /\ last.before["anonymous"] # NoEntry
    /\ last.before["anonymous"].concurrent = limits["free"].concurrentRequests
    /\ userLimits["anonymous"].concurrent = 3
    /\ userLimits["u1"] # NoEntry

----------------------------------------------------------------------------
(* generateText with its collaborators answering: specification SpecGenFair. *)
(* A call of an adapter settles, by resolving or by rejecting, and the timer *)
(* of executeWithRetry fires.                                                *)

AdapterAnswers == (\E usage \in UsageChoices : AdapterSucceeds(usage)) \/ AdapterFails

SpecGenFair == SpecGen /\ WF_vars(AdapterAnswers) /\ WF_vars(RetryTimerFires)

----------------------------------------------------------------------------
(* Properties of generateText, checked under SpecGenFair *)

GenActive == gen.phase \in {"calling", "sleeping"}

\* the place of a model in the candidate list of the call
PlaceOf(m) == CHOOSE i \in 1..Len(gen.modelsToTry) : gen.modelsToTry[i] = m

\* what holds of a generateText call at every moment
GenBounded ==
    gen.phase # "idle"
    => /\ \A m \in Range(gen.modelsToTry) : CallsTo(m) <= options.maxRetries + 1
       /\ \A i \in 1..Len(gen.calls) :
             /\ gen.calls[i].model \in ModelIds
             /\ gen.calls[i].model \in Range(gen.modelsToTry)
       /\ \A i, j \in 1..Len(gen.calls) :
             i < j => PlaceOf(gen.calls[i].model) <= PlaceOf(gen.calls[j].model)
       /\ gen.phase = "returned"
          => /\ gen.response # NoConfig
             /\ gen.calls[Len(gen.calls)].ok
       /\ gen.phase = "thrown"
          => /\ gen.error # NoError
             /\ gen.lastError = NoError => gen.error = <<"All models failed">>
             /\ gen.lastError # NoError => gen.error = gen.lastError
             /\ gen.calls # <<>>
                => /\ ~gen.calls[Len(gen.calls)].ok
                   /\ gen.lastError # NoError
             /\ (gen.calls # <<>> /\ gen.idx >= Len(gen.modelsToTry))
                => gen.error = AdapterError(gen.calls[Len(gen.calls)].model)

----------------------------------------------------------------------------
(* Failure of the preferred candidate's stream, checked under SpecStream *)

\* the streamText call is over; it opened the stream of the preferred model,
\* whose adapter reported a failure before any text chunk
PreferredFailedAtOnce ==
    /\ stream # Idle
    /\ stream.phase = "ended"
    /\ stream.invoked # <<>>
    /\ stream.invoked[1] = stream.request.modelId
    /\ adapter.stream[stream.request.modelId] = [texts |-> 0, ending |-> "error"]

\* the candidates behind the preferred model that can be attempted: they have
\* a descriptor and their provider is initialized
OtherCandidates ==
    { m \in Range(stream.modelsToTry) \ {stream.request.modelId} :
        m \in ModelIds /\ getProviderForModel(m, initialized).ok }

ErrorChunks == { i \in 1..Len(stream.delivered) : stream.delivered[i].type = "error" }

\* C38: with fallback enabled, when the adapter of the preferred candidate
\* fails before any text chunk, the next candidate is attempted; the caller
\* sees an error chunk only if every attempted candidate failed, and then
\* exactly one, as the last chunk.
C38_Original ==
    (PreferredFailedAtOnce /\ options.enableFallback)
    => /\ OtherCandidates # {} => Len(stream.invoked) >= 2
       /\ ErrorChunks # {}
          => /\ \A i \in 1..Len(stream.invoked) :
                   adapter.stream[stream.invoked[i]].ending = "error"
             /\ ErrorChunks = {Len(stream.delivered)}

----------------------------------------------------------------------------
(* The initialized set and the adapter getHealthyProvider returns, checked
   under SpecReg *)

\* every initialized name is a registered provider
InitializedRegistered == Range(initialized) \subseteq providers

\* the set changes only by an initializeProvider call that succeeded, which
\* adds the name of its provider
EntersOnSuccess ==
    initialized' # initialized
    => /\ last'.op = "initializeProvider"
       /\ last'.result.ok
       /\ last'.providerName \in providers
       /\ initialized' = SetAdd(initialized, last'.providerName)

\* getHealthyProvider returned an adapter
ProbeReturned == probe # Idle /\ probe.phase = "returned"

ReturnedInitialized == ProbeReturned => probe.provider \in Range(initialized)

\* C39: the initialized set is always a subset of the registered providers
\* and a provider enters it only by an initializeProvider call that succeeded;
\* getHealthyProvider never returns an adapter that is not in the initialized
\* set, also when the preferred name is registered and not initialized.
C39_Original ==
    /\ [](InitializedRegistered /\ ReturnedInitialized)
    /\ [][EntersOnSuccess]_vars

====
